---- MODULE Spec2Model ----
(***************************************************************************)
(* A model of the media reconstruction and tagging core of tdl-dl-ng:      *)
(*   - downloadSegments / downloadWithProgress  (web-ui/lib/downloader.ts) *)
(*   - injectReplayGain / findAtom / createCustomAtom (lib/m4a-utils.ts)   *)
(*   - the manifest decoding of getStreamInfo and getStreamInfoAtmos       *)
(*                                            (web-ui/lib/tidal-client.ts) *)
(*   - downloadTrack from the stream info to the audio data, and the track *)
(*     loop of downloadAlbum / downloadPlaylist (web-ui/lib/downloader.ts) *)
(*   - findAtom run loop iteration by loop iteration, and injectReplayGain  *)
(*     as a function applied twice in a row            (lib/m4a-utils.ts)  *)
(*   - loadFFmpeg under overlapping calls      (web-ui/lib/downloader.ts)  *)
(* Byte buffers are sequences of 0..255, JavaScript strings are sequences  *)
(* of UTF-16 code units, offsets are 0-based as in the source (a buffer    *)
(* b is read at offset o as b[o + 1]).                                     *)
(***************************************************************************)
EXTENDS Integers, Sequences, FiniteSets, TLC

VARIABLES
    \* ---- downloadSegments (downloader.ts 447-543)
    multi_thread_download,  \* settings.multi_thread_download
    urls,                   \* the segment plan handed to downloadSegments
    dsPc,                   \* where the call is: idle, await_batch, await_segment, returned, rejected
    batchStart,             \* parallel mode: first index of the batch awaited
    segIndex,               \* sequential mode: the loop variable i
    inflight,               \* indices whose downloadWithProgress promise is pending
    outcome,                \* index -> pending, ok or failed: how its fetch settled
    reordered,              \* some fetch completed before one of a lower index
    downloadedChunks,       \* slot array (parallel) / pushed list (sequential)
    completedSegments,      \* parallel mode: the progress counter
    fetchCount,             \* index -> number of fetch calls issued for it
    combined,               \* the buffer the call resolved with
    dsError,                \* the error the call rejected with
    \* ---- injectReplayGain (m4a-utils.ts 17-125)
    shape,                  \* how the input file was laid out (input only)
    fileBuffer,             \* the argument fileBuffer
    tags,                   \* the argument tags, as its Object.entries list
    irPc,                   \* idle, moov, udta, meta, ilst, atoms, splice, sizes, mdat, returned, threw
    moovOffset, udtaOffset, metaOffset, ilstOffset,
    newAtoms,               \* the atoms built by the loop of lines 60-65
    addedSize,
    newBuffer,
    mdatWarned,             \* the warning of line 120 was logged
    irResult,               \* the buffer the call resolved with
    \* ---- getStreamInfo, manifest decoding (tidal-client.ts 266-359)
    manifest,               \* what the stream endpoint answered, decoded to its parts
    mfPc,                   \* idle, template, generate, fallback, check, returned
    streamUrl,
    streamUrls,
    totalCount,             \* the segment count of lines 303-307
    mfLogged,               \* what console.error / console.warn reported
    \* ---- downloadTrack, audio download (downloader.ts 777-843) and
    \* ---- downloadWithProgress (downloader.ts 397-441)
    trPc,                   \* stream_info, download, fetch, read, segments, audio, error
    requested,              \* the URLs downloadWithProgress called fetch with
    response,               \* the Response fetch resolved with
    bodyLeft,               \* the chunks reader.read() has still to deliver
    chunksRead,             \* the local chunks of downloadWithProgress
    received,               \* its local received
    audioBuffer,            \* the audio data of line 843
    trError,                \* the message of the Error downloadTrack caught
    \* ---- downloadAlbum / downloadPlaylist (downloader.ts 1078-1303)
    batchKind,              \* "album" or "playlist"
    tracks,                 \* what getAlbumTracks / getPlaylistTracks gave
    baPc,                   \* info, track, delay, zip, resolved, rejected
    trackIndex,             \* the loop variable i
    attempted,              \* the indices processTrackData was called for
    skipped,                \* the indices skipped as undefined (playlist)
    zipFiles,               \* the indices whose data zip.file() was given
    failedLogged,           \* what the catch of the loop logged
    stage,                  \* the stage of the last onProgress report
    baError,                \* the message of the Error the call rejected with
    \* ---- findAtom, one call (m4a-utils.ts 127-141)
    faView,                 \* the argument view, as its bytes
    faType,                 \* the argument type
    faStart,                \* the argument start
    faEnd,                  \* the argument end
    faOffset,               \* the local offset
    faPc,                   \* loop, returned, threw
    faResult,               \* the value returned
    \* ---- two injectReplayGain calls in a row (m4a-utils.ts 17-125)
    coShape,                \* how the first input file was laid out
    coTagsA,                \* the tags of the first call
    coTagsB,                \* the tags of the second call
    coPc,                   \* idle, first, second, done
    coFirst,                \* what the call with coTagsA resolved with
    coSecond,               \* what the call on coFirst with coTagsB resolved with
    coBoth,                 \* what one call with the entries of both resolved with
    \* ---- loadFFmpeg (downloader.ts 334-392)
    ffmpeg,                 \* the module variable: 0 for null, else an FFmpeg instance
    ffmpegLoaded,           \* the module variable
    engines,                \* instance -> none, loading, loaded, failed: its load()
    lfPc,                   \* call -> idle, await, resolved, rejected
    lfResult,               \* call -> the instance it resolved with (0: none)
    lfResultLoaded          \* call -> that instance's load() had completed by then

dsVars == <<multi_thread_download, urls, dsPc, batchStart, segIndex, inflight,
            outcome, reordered, downloadedChunks, completedSegments, fetchCount,
            combined, dsError>>

irVars == <<shape, fileBuffer, tags, irPc, moovOffset, udtaOffset, metaOffset,
            ilstOffset, newAtoms, addedSize, newBuffer, mdatWarned, irResult>>

\* The values of one component's variables while another is exercised.
DsIdle ==
    /\ multi_thread_download = FALSE
    /\ urls = <<>>
    /\ dsPc = "unused"
    /\ batchStart = 0
    /\ segIndex = 0
    /\ inflight = {}
    /\ outcome = <<>>
    /\ reordered = FALSE
    /\ downloadedChunks = <<>>
    /\ completedSegments = 0
    /\ fetchCount = <<>>
    /\ combined = <<-1>>
    /\ dsError = [message |-> "none"]

IrIdle ==
    /\ shape = [depth |-> 0]
    /\ fileBuffer = <<>>
    /\ tags = <<>>
    /\ irPc = "unused"
    /\ moovOffset = -1
    /\ udtaOffset = -1
    /\ metaOffset = -1
    /\ ilstOffset = -1
    /\ newAtoms = <<>>
    /\ addedSize = 0
    /\ newBuffer = <<-1>>
    /\ mdatWarned = FALSE
    /\ irResult = <<-1>>

mfVars == <<manifest, mfPc, streamUrl, streamUrls, totalCount, mfLogged>>

MfIdle ==
    /\ manifest = [mime |-> "none"]
    /\ mfPc = "unused"
    /\ streamUrl = <<>>
    /\ streamUrls = <<>>
    /\ totalCount = 0
    /\ mfLogged = "nothing"

trVars == <<trPc, requested, response, bodyLeft, chunksRead, received,
            audioBuffer,
            trError>>

TrIdle ==
    /\ trPc = "unused"
    /\ requested = <<>>
    /\ response = [ok |-> FALSE]
    /\ bodyLeft = <<>>
    /\ chunksRead = <<>>
    /\ received = 0
    /\ audioBuffer = <<-1>>
    /\ trError = "none"

baVars == <<batchKind, tracks, baPc, trackIndex, attempted, skipped, zipFiles,
            failedLogged, stage, baError>>

BaIdle ==
    /\ batchKind = "none"
    /\ tracks = <<>>
    /\ baPc = "unused"
    /\ trackIndex = 0
    /\ attempted = <<>>
    /\ skipped = {}
    /\ zipFiles = <<>>
    /\ failedLogged = <<>>
    /\ stage = "none"
    /\ baError = "none"

faVars == <<faView, faType, faStart, faEnd, faOffset, faPc, faResult>>

FaIdle ==
    /\ faView = <<>>
    /\ faType = <<>>
    /\ faStart = 0
    /\ faEnd = 0
    /\ faOffset = 0
    /\ faPc = "unused"
    /\ faResult = -1

coVars == <<coShape, coTagsA, coTagsB, coPc, coFirst, coSecond, coBoth>>

CoIdle ==
    /\ coShape = [depth |-> 0]
    /\ coTagsA = <<>>
    /\ coTagsB = <<>>
    /\ coPc = "unused"
    /\ coFirst = <<-1>>
    /\ coSecond = <<-1>>
    /\ coBoth = <<-1>>

ffVars == <<ffmpeg, ffmpegLoaded, engines, lfPc, lfResult, lfResultLoaded>>

FfIdle ==
    /\ ffmpeg = 0
    /\ ffmpegLoaded = FALSE
    /\ engines = <<>>
    /\ lfPc = <<>>
    /\ lfResult = <<>>
    /\ lfResultLoaded = <<>>

\* what each component leaves alone
dsOthers == <<irVars, mfVars, trVars, baVars, faVars, coVars, ffVars>>
irOthers == <<dsVars, mfVars, trVars, baVars, faVars, coVars, ffVars>>
mfOthers == <<dsVars, irVars, trVars, baVars, faVars, coVars, ffVars>>
trOthers == <<irVars, mfVars, baVars, faVars, coVars, ffVars>>
baOthers == <<dsVars, irVars, mfVars, trVars, faVars, coVars, ffVars>>
faOthers == <<dsVars, irVars, mfVars, trVars, baVars, coVars, ffVars>>
coOthers == <<dsVars, irVars, mfVars, trVars, baVars, faVars, ffVars>>
ffOthers == <<dsVars, irVars, mfVars, trVars, baVars, faVars, coVars>>

\* ------------------------------------------------------------------ bounds
MaxSegments == 13
MaxTags == 2
MaxKids == 1
MaxS == 4
MaxChunks == 3
MaxTracks == 3
MaxAtoms == 2
MaxEach == 2
MaxCalls == 4

\* ------------------------------------------------------- generic helpers
Min(a, b) == IF a < b THEN a ELSE b

RECURSIVE Flatten(_)
\* concatenation of a sequence of sequences, first to last
Flatten(ss) == IF ss = <<>> THEN <<>> ELSE Head(ss) \o Flatten(Tail(ss))

RECURSIVE SumLen(_)
SumLen(ss) == IF ss = <<>> THEN 0 ELSE Len(Head(ss)) + SumLen(Tail(ss))

\* ======================================================================
\* downloadSegments
\* ======================================================================
CONCURRENCY_LIMIT == 6

\* The slot value null of `new Array(totalSegments).fill(null)`.
Null == <<-1>>

\* The body the server holds for a URL; URLs of a plan are the numbers
\* 0..N-1 here, and bodies differ in content and in length.
Body(url) == [k \in 1..((url % 3) + 1) |-> (16 * url + k) % 256]

\* How one downloadWithProgress call can settle (downloader.ts 401-441):
\* the body, a response with ok = false, or fetch itself rejecting.
FetchOutcomes == {"ok", "bad_status", "network_error"}

\* The Error a failed downloadWithProgress rejects with (lines 401-405):
\* `Download failed: ${response.status}` or whatever fetch threw. Neither
\* carries the URL or the index.
FetchError(kind) ==
    IF kind = "bad_status" THEN [message |-> "Download failed: status"]
    ELSE [message |-> "fetch failed"]

NoError == [message |-> "none"]

\* downloadedChunks[segmentIndex] = chunk  (line 471)
StoreChunkByArrival(chunks, segmentIndex, chunk) ==
    LET free == {k \in 1..Len(chunks) : chunks[k] = Null}
        first == CHOOSE k \in free : \A j \in free : k <= j
    IN [chunks EXCEPT ![first] = chunk]

StoreChunk(chunks, segmentIndex, chunk) ==
    [chunks EXCEPT ![segmentIndex + 1] = chunk]

\* Lines 488-503: total the non-null slots, then copy them in slot order.
RECURSIVE CombineSlots(_)
CombineSlots(chunks) ==
    IF chunks = <<>> THEN <<>>
    ELSE IF Head(chunks) # Null
         THEN Head(chunks) \o CombineSlots(Tail(chunks))
         ELSE CombineSlots(Tail(chunks))

\* Lines 533-541: copy the pushed chunks in push order.
CombineList(chunks) == Flatten(chunks)

\* Lines 462, 465 with a batch one index short.
BatchIndicesShort(b, total) == b .. (Min(b + CONCURRENCY_LIMIT, total) - 2)

\* the indices of the batch starting at b  (lines 462, 465)
BatchIndices(b, total) == b .. (Min(b + CONCURRENCY_LIMIT, total) - 1)

DsInit ==
    /\ multi_thread_download \in BOOLEAN
    /\ \E n \in 1..MaxSegments : urls = [k \in 1..n |-> k - 1]
    /\ dsPc = "idle"
    /\ batchStart = 0
    /\ segIndex = 0
    /\ inflight = {}
    /\ outcome = [k \in 0..(Len(urls) - 1) |-> "pending"]
    /\ reordered = FALSE
    /\ downloadedChunks = <<>>
    /\ completedSegments = 0
    /\ fetchCount = [k \in 0..(Len(urls) - 1) |-> 0]
    /\ combined = Null
    /\ dsError = NoError
    /\ IrIdle
    /\ MfIdle
    /\ TrIdle
    /\ BaIdle
    /\ FaIdle
    /\ CoIdle
    /\ FfIdle

\* Issue every fetch of the batch starting at b (the inner for loop,
\* lines 465-483), then suspend at `await Promise.all` (line 485). A batch
\* is issued when the call starts or when the last fetch of the batch
\* before it has completed, so these fetches are then the only ones pending.
IssueBatch(b) ==
    /\ batchStart' = b
    /\ inflight' = BatchIndices(b, Len(urls))
    /\ fetchCount' = [k \in DOMAIN fetchCount |->
                        IF k \in BatchIndices(b, Len(urls))
                        THEN fetchCount[k] + 1 ELSE fetchCount[k]]
    /\ dsPc' = "await_batch"

\* Issue the fetch of segment i and suspend at the await of line 513.
IssueSegment(i) ==
    /\ segIndex' = i
    /\ inflight' = inflight \cup {i}
    /\ fetchCount' = [fetchCount EXCEPT ![i] = @ + 1]
    /\ dsPc' = "await_segment"

\* downloadSegments is called: lines 451-485 (parallel) or 506-513.
CallDownloadSegments ==
    /\ dsPc = "idle"
    /\ IF multi_thread_download
       THEN /\ downloadedChunks' = [k \in 1..Len(urls) |-> Null]
            /\ IssueBatch(0)
            /\ UNCHANGED segIndex
       ELSE /\ downloadedChunks' = <<>>
            /\ IssueSegment(0)
            /\ UNCHANGED batchStart
    /\ UNCHANGED <<multi_thread_download, urls, outcome, reordered,
                   completedSegments, combined, dsError>>
    /\ UNCHANGED dsOthers

\* Line 485 awaiting the first fetch of the batch only (Promise.race): the
\* next batch is issued while fetches of this one are still pending.
SegmentFetchedNoBarrier(i) ==
    /\ multi_thread_download
    /\ i \in inflight
    /\ outcome' = [outcome EXCEPT ![i] = "ok"]
    /\ reordered' = (reordered \/ \E j \in inflight : j < i)
    /\ downloadedChunks' = StoreChunk(downloadedChunks, i, Body(urls[i + 1]))
    /\ completedSegments' = completedSegments + 1
    /\ IF /\ dsPc = "await_batch"
          /\ i >= batchStart
          /\ batchStart + CONCURRENCY_LIMIT < Len(urls)
       THEN /\ batchStart' = batchStart + CONCURRENCY_LIMIT
            /\ inflight' = (inflight \ {i})
                              \cup BatchIndices(batchStart', Len(urls))
            /\ fetchCount' = [k \in DOMAIN fetchCount |->
                                IF k \in BatchIndices(batchStart', Len(urls))
                                THEN fetchCount[k] + 1 ELSE fetchCount[k]]
            /\ UNCHANGED <<combined, dsPc>>
       ELSE IF dsPc = "await_batch" /\ inflight = {i}
            THEN /\ combined' = CombineSlots(downloadedChunks')
                 /\ dsPc' = "returned"
                 /\ inflight' = {}
                 /\ UNCHANGED <<batchStart, fetchCount>>
            ELSE /\ inflight' = inflight \ {i}
                 /\ UNCHANGED <<batchStart, fetchCount, combined, dsPc>>
    /\ UNCHANGED <<multi_thread_download, urls, segIndex, dsError>>
    /\ UNCHANGED dsOthers

\* Parallel mode: the fetch of index i completes and its .then callback
\* runs (lines 469-480). It runs whether or not the call already rejected.
\* When it was the last pending fetch of the awaited batch, Promise.all
\* resolves and the call goes on in the same turn: next batch, or the
\* concatenation of lines 488-503.
SegmentFetched(i) ==
    /\ multi_thread_download
    /\ i \in inflight
    /\ outcome' = [outcome EXCEPT ![i] = "ok"]
    /\ reordered' = (reordered \/ \E j \in inflight : j < i)
    /\ downloadedChunks' = StoreChunk(downloadedChunks, i, Body(urls[i + 1]))
    /\ completedSegments' = completedSegments + 1
    /\ IF dsPc = "await_batch" /\ inflight = {i}
       THEN IF batchStart + CONCURRENCY_LIMIT < Len(urls)
            THEN /\ IssueBatch(batchStart + CONCURRENCY_LIMIT)
                 /\ UNCHANGED combined
            ELSE /\ combined' = CombineSlots(downloadedChunks')
                 /\ dsPc' = "returned"
                 /\ inflight' = {}
                 /\ UNCHANGED <<batchStart, fetchCount>>
       ELSE /\ inflight' = inflight \ {i}
            /\ UNCHANGED <<batchStart, fetchCount, combined, dsPc>>
    /\ UNCHANGED <<multi_thread_download, urls, segIndex, dsError>>
    /\ UNCHANGED dsOthers

\* Line 485 awaiting with Promise.allSettled: a failed fetch leaves its slot
\* null and the batch goes on.
SegmentFailedSettled(i, kind) ==
    /\ multi_thread_download
    /\ i \in inflight
    /\ kind \in FetchOutcomes \ {"ok"}
    /\ outcome' = [outcome EXCEPT ![i] = "failed"]
    /\ IF dsPc = "await_batch" /\ inflight = {i}
       THEN IF batchStart + CONCURRENCY_LIMIT < Len(urls)
            THEN /\ IssueBatch(batchStart + CONCURRENCY_LIMIT)
                 /\ UNCHANGED combined
            ELSE /\ combined' = CombineSlots(downloadedChunks)
                 /\ dsPc' = "returned"
                 /\ inflight' = {}
                 /\ UNCHANGED <<batchStart, fetchCount>>
       ELSE /\ inflight' = inflight \ {i}
            /\ UNCHANGED <<batchStart, fetchCount, combined, dsPc>>
    /\ UNCHANGED <<multi_thread_download, urls, segIndex, reordered,
                   downloadedChunks, completedSegments, dsError>>
    /\ UNCHANGED dsOthers

\* Parallel mode: the fetch of index i fails, so its promise rejects and
\* Promise.all rejects with that error (line 485); nothing catches it, the
\* call rejects. The other fetches of the batch stay in flight.
SegmentFailed(i, kind) ==
    /\ multi_thread_download
    /\ i \in inflight
    /\ kind \in FetchOutcomes \ {"ok"}
    /\ outcome' = [outcome EXCEPT ![i] = "failed"]
    /\ inflight' = inflight \ {i}
    /\ IF dsPc = "await_batch"
       THEN /\ dsPc' = "rejected"
            /\ dsError' = FetchError(kind)
       ELSE UNCHANGED <<dsPc, dsError>>
    /\ UNCHANGED <<multi_thread_download, urls, batchStart, segIndex, reordered,
                   downloadedChunks, completedSegments, fetchCount,
                   combined>>
    /\ UNCHANGED dsOthers

\* Sequential mode: the awaited fetch completes (lines 527-531), the loop
\* goes to i + 1 or ends and the chunks are combined (lines 533-541).
SequentialFetched ==
    /\ ~multi_thread_download
    /\ dsPc = "await_segment"
    /\ segIndex \in inflight
    /\ outcome' = [outcome EXCEPT ![segIndex] = "ok"]
    /\ downloadedChunks' = Append(downloadedChunks, Body(urls[segIndex + 1]))
    /\ IF segIndex + 1 < Len(urls)
       THEN /\ inflight' = {segIndex + 1}
            /\ segIndex' = segIndex + 1
            /\ fetchCount' = [fetchCount EXCEPT ![segIndex + 1] = @ + 1]
            /\ UNCHANGED <<dsPc, combined>>
       ELSE /\ inflight' = {}
            /\ combined' = CombineList(downloadedChunks')
            /\ dsPc' = "returned"
            /\ UNCHANGED <<segIndex, fetchCount>>
    /\ UNCHANGED <<multi_thread_download, urls, batchStart, reordered,
                   completedSegments, dsError>>
    /\ UNCHANGED dsOthers

\* A sequential loop that fetches a failed segment again (up to 3 times).
SequentialFailedRetry(kind) ==
    /\ ~multi_thread_download
    /\ dsPc = "await_segment"
    /\ segIndex \in inflight
    /\ kind \in FetchOutcomes \ {"ok"}
    /\ fetchCount[segIndex] < 3
    /\ fetchCount' = [fetchCount EXCEPT ![segIndex] = @ + 1]
    /\ UNCHANGED <<multi_thread_download, urls, batchStart, segIndex, reordered,
                   downloadedChunks, completedSegments, inflight, outcome,
                   dsPc, dsError, combined>>
    /\ UNCHANGED dsOthers

\* Sequential mode: the awaited fetch fails; the await of line 513 throws
\* and the call rejects.
SequentialFailed(kind) ==
    /\ ~multi_thread_download
    /\ dsPc = "await_segment"
    /\ segIndex \in inflight
    /\ kind \in FetchOutcomes \ {"ok"}
    /\ outcome' = [outcome EXCEPT ![segIndex] = "failed"]
    /\ inflight' = {}
    /\ dsPc' = "rejected"
    /\ dsError' = FetchError(kind)
    /\ UNCHANGED <<multi_thread_download, urls, batchStart, segIndex, reordered,
                   downloadedChunks, completedSegments, fetchCount,
                   combined>>
    /\ UNCHANGED dsOthers


\* ======================================================================
\* m4a-utils.ts: byte primitives
\* ======================================================================

\* A DataView read of n bytes at offset is in range (else RangeError).
InRange(view, offset, n) == offset >= 0 /\ offset + n <= Len(view)

\* DataView.getUint32(offset), big-endian (the caller checks InRange)
getUint32(view, offset) ==
    view[offset + 1] * 16777216 + view[offset + 2] * 65536
        + view[offset + 3] * 256 + view[offset + 4]

\* The four bytes DataView.setUint32 writes, big-endian: byte k is
\* (v / 256^(4-k)) mod 256, which is the value modulo 2^32. (The sizes met
\* here stay below 2^31, the largest integer TLC represents.)
Uint32Bytes(v) ==
    <<(v \div 16777216) % 256, (v \div 65536) % 256, (v \div 256) % 256, v % 256>>

\* buf with src written at offset pos (TypedArray.set / setUint32 / setUint8
\* all overwrite in place); the caller checks the range.
WriteAt(buf, src, pos) ==
    [k \in 1..Len(buf) |->
        IF k > pos /\ k <= pos + Len(src) THEN src[k - pos] ELSE buf[k]]

\* Uint8Array.slice(from, to): the bounds are clamped to the array.
Slice(buf, from, to) ==
    LET a == Min(from, Len(buf))
        b == Min(to, Len(buf))
    IN IF b <= a THEN <<>> ELSE [k \in 1..(b - a) |-> buf[a + k]]

\* The 4-character atom types, as character codes.
MOOV == <<109, 111, 111, 118>>
UDTA == <<117, 100, 116, 97>>
META == <<109, 101, 116, 97>>
ILST == <<105, 108, 115, 116>>
MDAT == <<109, 100, 97, 116>>
DASHES == <<45, 45, 45, 45>>       \* '----'
MEAN == <<109, 101, 97, 110>>
NAME == <<110, 97, 109, 101>>
DATA == <<100, 97, 116, 97>>

\* getAtomType (lines 143-149): the four bytes at offset as a string of
\* the characters with those codes.
getAtomType(view, offset) == [i \in 1..4 |-> view[offset + i]]

\* What findAtom gives: an offset, -1, or a RangeError raised by a read
\* outside the view.
Found(o) == [threw |-> FALSE, offset |-> o]
Raised == [threw |-> TRUE, offset |-> -1]

\* findAtom (lines 127-141), the loop from `offset`.
RECURSIVE FindAtomFrom(_, _, _, _)
FindAtomFrom(view, type, offset, end) ==
    IF ~(offset < end - 8) THEN Found(-1)
    ELSE IF ~InRange(view, offset, 4) THEN Raised
    ELSE LET size == getUint32(view, offset)
         IN IF size < 8 THEN Found(-1)
            ELSE IF ~InRange(view, offset + 4, 4) THEN Raised
            ELSE IF getAtomType(view, offset + 4) = type THEN Found(offset)
            ELSE FindAtomFrom(view, type, offset + size, end)

\* A findAtom that takes the first atom it meets, whatever its type.
findAtomAnyType(view, type, start, end) ==
    IF ~(start < end - 8) THEN Found(-1)
    ELSE IF ~InRange(view, start, 8) THEN Raised
    ELSE IF getUint32(view, start) < 8 THEN Found(-1)
    ELSE Found(start)

findAtom(view, type, start, end) == FindAtomFrom(view, type, start, end)


\* ======================================================================
\* m4a-utils.ts: createCustomAtom
\* ======================================================================

\* String.prototype.toUpperCase on one UTF-16 code unit: a-z and the
\* Latin-1 lower-case letters go up by 32, sharp s becomes "SS", the other
\* characters used here have no upper-case form.
UpperChar(c) ==
    IF c >= 97 /\ c <= 122 THEN <<c - 32>>
    ELSE IF c = 223 THEN <<83, 83>>
    ELSE IF c >= 224 /\ c <= 254 /\ c # 247 THEN <<c - 32>>
    ELSE <<c>>

RECURSIVE toUpperCase(_)
toUpperCase(str) ==
    IF str = <<>> THEN <<>> ELSE UpperChar(Head(str)) \o toUpperCase(Tail(str))

\* writeString (lines 203-207): one setUint8 per UTF-16 code unit, and
\* setUint8 keeps the low 8 bits of charCodeAt(i).
writeString(str) == [i \in 1..Len(str) |-> str[i] % 256]

\* 'com.apple.iTunes' (line 158)
MeanString == <<99, 111, 109, 46, 97, 112, 112, 108, 101, 46, 105, 84, 117, 110, 101, 115>>

\* A createCustomAtom whose data size forgets the 4 null bytes.
createCustomAtomShortData(name, value) ==
    LET atomName == toUpperCase(name)
        meanSize == 12 + Len(MeanString)
        nameSize == 12 + Len(atomName)
        dataSize == 12 + Len(value)
        totalSize == 8 + meanSize + nameSize + dataSize
    IN Uint32Bytes(totalSize) \o DASHES
       \o Uint32Bytes(meanSize) \o MEAN \o Uint32Bytes(0) \o writeString(MeanString)
       \o Uint32Bytes(nameSize) \o NAME \o Uint32Bytes(0) \o writeString(atomName)
       \o Uint32Bytes(dataSize) \o DATA \o Uint32Bytes(1) \o Uint32Bytes(0)
       \o writeString(value)

\* createCustomAtom (lines 151-201). The sizes are computed from the
\* strings' length in UTF-16 code units (lines 165-171); the buffer has
\* totalSize bytes and is filled left to right.
createCustomAtom(name, value) ==
    LET atomName == toUpperCase(name)
        atomValue == value
        meanSize == 12 + Len(MeanString)
        nameSize == 12 + Len(atomName)
        dataSize == 16 + Len(atomValue)
        totalSize == 8 + meanSize + nameSize + dataSize
    IN Uint32Bytes(totalSize) \o DASHES
       \o Uint32Bytes(meanSize) \o MEAN \o Uint32Bytes(0) \o writeString(MeanString)
       \o Uint32Bytes(nameSize) \o NAME \o Uint32Bytes(0) \o writeString(atomName)
       \o Uint32Bytes(dataSize) \o DATA \o Uint32Bytes(1) \o Uint32Bytes(0)
       \o writeString(atomValue)


\* ======================================================================
\* m4a-utils.ts: injectReplayGain
\* ======================================================================

\* The loop of lines 60-65 without its `if (!value) continue`.
RECURSIVE BuildAtomsAll(_)
BuildAtomsAll(entries) ==
    IF entries = <<>> THEN <<>>
    ELSE <<createCustomAtom(Head(entries).key, Head(entries).value)>>
         \o BuildAtomsAll(Tail(entries))

\* Lines 60-65: one atom per entry whose value is not the empty string
\* (`if (!value) continue`), in the order of Object.entries.
RECURSIVE BuildAtoms(_)
BuildAtoms(entries) ==
    IF entries = <<>> THEN <<>>
    ELSE IF Head(entries).value = <<>> THEN BuildAtoms(Tail(entries))
    ELSE <<createCustomAtom(Head(entries).key, Head(entries).value)>>
         \o BuildAtoms(Tail(entries))

\* The loop of lines 82-86 with a currentPos that never advances.
RECURSIVE SetAtomsSamePos(_, _, _)
SetAtomsSamePos(buf, atoms, currentPos) ==
    IF atoms = <<>> THEN [threw |-> FALSE, buf |-> buf, pos |-> currentPos]
    ELSE IF currentPos + Len(Head(atoms)) > Len(buf)
         THEN [threw |-> TRUE, buf |-> buf, pos |-> currentPos]
         ELSE LET r == SetAtomsSamePos(WriteAt(buf, Head(atoms), currentPos),
                                       Tail(atoms), currentPos)
              IN [r EXCEPT !.pos = IF r.threw THEN r.pos
                                   ELSE r.pos + Len(Head(atoms))]

\* Lines 82-86: each atom is written at currentPos, which then advances.
\* TypedArray.set raises a RangeError when the source does not fit.
RECURSIVE SetAtoms(_, _, _)
SetAtoms(buf, atoms, currentPos) ==
    IF atoms = <<>> THEN [threw |-> FALSE, buf |-> buf, pos |-> currentPos]
    ELSE IF currentPos + Len(Head(atoms)) > Len(buf)
         THEN [threw |-> TRUE, buf |-> buf, pos |-> currentPos]
         ELSE SetAtoms(WriteAt(buf, Head(atoms), currentPos), Tail(atoms),
                       currentPos + Len(Head(atoms)))

\* A splice that writes the new atoms over the bytes after the insertion
\* point instead of moving them back: the rest is copied at its old place.
SpliceOverwrite(buf, atoms, insertionPoint) ==
    LET zero == [k \in 1..(Len(buf) + SumLen(atoms)) |-> 0]
        all == WriteAt(zero, buf, 0)
        ins == SetAtoms(all, atoms, insertionPoint)
    IN [threw |-> ins.threw, buf |-> ins.buf]

\* A splice that puts the new atoms in front of the file.
SpliceAtStart(buf, atoms, insertionPoint) ==
    [threw |-> FALSE, buf |-> Flatten(atoms) \o buf]

\* Lines 73-89: the new zero-filled buffer, the head of the file, the new
\* atoms, the rest of the file.
Splice(buf, atoms, insertionPoint) ==
    LET zero == [k \in 1..(Len(buf) + SumLen(atoms)) |-> 0]
        headCopied == WriteAt(zero, Slice(buf, 0, insertionPoint), 0)
        ins == SetAtoms(headCopied, atoms, insertionPoint)
        rest == Slice(buf, insertionPoint, Len(buf))
    IN IF ins.threw THEN [threw |-> TRUE, buf |-> ins.buf]
       ELSE IF ins.pos + Len(rest) > Len(ins.buf)
            THEN [threw |-> TRUE, buf |-> ins.buf]
            ELSE [threw |-> FALSE, buf |-> WriteAt(ins.buf, rest, ins.pos)]

\* One size update of lines 94-107: the size read from the ORIGINAL file
\* at offset, plus added, written into the new buffer at offset.
GrowSize(newBuf, oldBuf, offset, added) ==
    WriteAt(newBuf, Uint32Bytes(getUint32(oldBuf, offset) + added), offset)

\* Lines 94-107, ilst first, moov last; only three of the four fields.
UpdateSizesNoMoov(newBuf, oldBuf, moovO, udtaO, metaO, ilstO, added) ==
    LET b1 == GrowSize(newBuf, oldBuf, ilstO, added)
        b2 == GrowSize(b1, oldBuf, metaO, added)
    IN GrowSize(b2, oldBuf, udtaO, added)

UpdateSizes(newBuf, oldBuf, moovO, udtaO, metaO, ilstO, added) ==
    LET b1 == GrowSize(newBuf, oldBuf, ilstO, added)
        b2 == GrowSize(b1, oldBuf, metaO, added)
        b3 == GrowSize(b2, oldBuf, udtaO, added)
    IN GrowSize(b3, oldBuf, moovO, added)

\* ---- the input files ------------------------------------------------
Atom(type, payload) == Uint32Bytes(8 + Len(payload)) \o type \o payload

FTYP == <<102, 116, 121, 112>>
TRAK == <<116, 114, 97, 107>>
HDLR == <<104, 100, 108, 114>>
FREE == <<102, 114, 101, 101>>
CNAM == <<169, 110, 97, 109>>      \* the iTunes title atom

\* The k-th pre-existing tag of ilst.
ExistingTag(k) == Atom(CNAM, <<64 + k>>)

ShapeIlst(s) == Atom(ILST, Flatten([k \in 1..s.kids |-> ExistingTag(k)]))

ShapeMeta(s) ==
    Atom(META, <<0, 0, 0, 0>> \o Atom(HDLR, <<0, 0>>)
               \o (IF s.depth >= 4 THEN ShapeIlst(s) ELSE <<>>)
               \o (IF s.free THEN Atom(FREE, <<0>>) ELSE <<>>))

ShapeUdta(s) == Atom(UDTA, IF s.depth >= 3 THEN ShapeMeta(s) ELSE <<>>)

ShapeMoovPayload(s) ==
    (IF s.trak THEN Atom(TRAK, <<7>>) ELSE <<>>)
    \o (IF s.depth >= 2 THEN ShapeUdta(s) ELSE <<>>)

\* moov; a file damaged as "oversized" declares 16 bytes more than moov has.
ShapeMoov(s) ==
    Uint32Bytes(8 + Len(ShapeMoovPayload(s))
                + (IF s.damage = "oversized" THEN 16 ELSE 0))
    \o MOOV \o ShapeMoovPayload(s)

ShapePre(s) ==
    IF s.pre = 0 THEN <<>>
    ELSE IF s.pre = 1 THEN Atom(FTYP, <<77, 52, 65, 32>>)
    ELSE Atom(FTYP, <<77, 52, 65, 32>>) \o Atom(MDAT, <<1, 2, 3>>)

ShapePost(s) == IF s.post = 0 THEN <<>> ELSE Atom(MDAT, <<9, 8>>)

\* The file of a shape; a "truncated" file lost its last two bytes.
ShapeFile(s) ==
    LET whole == ShapePre(s) \o (IF s.depth >= 1 THEN ShapeMoov(s) ELSE <<>>)
                 \o ShapePost(s)
    IN IF s.damage = "truncated" THEN SubSeq(whole, 1, Len(whole) - 2)
       ELSE whole

\* depth: how much of the chain moov/udta/meta/ilst the file holds (0: no
\* moov ... 4: all four). Damaged files have ftyp, trak and no trailer.
Shapes ==
    {s \in [depth : 0..4, pre : 0..2, post : 0..1, trak : BOOLEAN,
            kids : 0..MaxKids, free : BOOLEAN,
            damage : {"none", "truncated", "oversized"}] :
        /\ s.depth < 4 => s.kids = 0
        /\ s.depth < 3 => ~s.free
        /\ s.damage # "none" => s.pre = 1 /\ s.post = 0 /\ s.trak /\ s.depth >= 1}

\* ---- the input tags -------------------------------------------------
TagPool ==
    << [key |-> <<82, 69, 80, 76, 65, 89, 71, 65, 73, 78, 95, 84, 82, 65, 67,
                  75, 95, 71, 65, 73, 78>>,                \* REPLAYGAIN_TRACK_GAIN
        value |-> <<45, 56, 46, 53, 48, 32, 100, 66>>],    \* -8.50 dB
       [key |-> <<112, 101, 97, 107>>,                     \* peak
        value |-> <<48, 46, 57>>],                         \* 0.9
       [key |-> <<97, 108, 98, 117, 109>>,                 \* album
        value |-> <<>>],                                   \* (empty)
       [key |-> <<83, 116, 114, 97, 223, 101>>,            \* Strasse with sharp s
        value |-> <<233, 49>>],                            \* e-acute, 1
       [key |-> <<88>>,                                    \* X
        value |-> <<8364>>] >>                             \* euro sign

\* Object.entries of a tags object: its keys are distinct.
TagLists ==
    UNION {{[k \in 1..n |-> TagPool[f[k]]] :
              f \in {g \in [1..n -> 1..Len(TagPool)] :
                        \A a, b \in 1..n : a # b => g[a] # g[b]}} :
           n \in 0..MaxTags}

NoBuffer == <<-1>>

IrInit ==
    /\ shape \in Shapes
    /\ fileBuffer = ShapeFile(shape)
    /\ tags \in TagLists
    /\ irPc = "idle"
    /\ moovOffset = -1
    /\ udtaOffset = -1
    /\ metaOffset = -1
    /\ ilstOffset = -1
    /\ newAtoms = <<>>
    /\ addedSize = 0
    /\ newBuffer = NoBuffer
    /\ mdatWarned = FALSE
    /\ irResult = NoBuffer
    /\ DsIdle
    /\ MfIdle
    /\ TrIdle
    /\ BaIdle
    /\ FaIdle
    /\ CoIdle
    /\ FfIdle

\* `return fileBuffer`
ReturnOriginal ==
    /\ irResult' = fileBuffer
    /\ irPc' = "returned"

\* Lines 18-26: the call starts and looks for moov from offset 0.
FindMoov ==
    /\ irPc = "idle"
    /\ LET r == findAtom(fileBuffer, MOOV, 0, Len(fileBuffer))
       IN /\ moovOffset' = r.offset
          /\ IF r.threw THEN irPc' = "threw" /\ UNCHANGED irResult
             ELSE IF r.offset = -1 THEN ReturnOriginal
             ELSE irPc' = "udta" /\ UNCHANGED irResult
    /\ UNCHANGED <<shape, fileBuffer, tags, udtaOffset, metaOffset, ilstOffset,
                   newAtoms, addedSize, newBuffer, mdatWarned>>
    /\ UNCHANGED irOthers

\* Lines 29-37
FindUdta ==
    /\ irPc = "udta"
    /\ LET moovSize == getUint32(fileBuffer, moovOffset)
           r == findAtom(fileBuffer, UDTA, moovOffset + 8, moovOffset + moovSize)
       IN /\ udtaOffset' = r.offset
          /\ IF r.threw THEN irPc' = "threw" /\ UNCHANGED irResult
             ELSE IF r.offset = -1 THEN ReturnOriginal
             ELSE irPc' = "meta" /\ UNCHANGED irResult
    /\ UNCHANGED <<shape, fileBuffer, tags, moovOffset, metaOffset, ilstOffset,
                   newAtoms, addedSize, newBuffer, mdatWarned>>
    /\ UNCHANGED irOthers

\* Lines 40-45
FindMeta ==
    /\ irPc = "meta"
    /\ LET udtaSize == getUint32(fileBuffer, udtaOffset)
           r == findAtom(fileBuffer, META, udtaOffset + 8, udtaOffset + udtaSize)
       IN /\ metaOffset' = r.offset
          /\ IF r.threw THEN irPc' = "threw" /\ UNCHANGED irResult
             ELSE IF r.offset = -1 THEN ReturnOriginal
             ELSE irPc' = "ilst" /\ UNCHANGED irResult
    /\ UNCHANGED <<shape, fileBuffer, tags, moovOffset, udtaOffset, ilstOffset,
                   newAtoms, addedSize, newBuffer, mdatWarned>>
    /\ UNCHANGED irOthers

\* Lines 49-54: ilst is searched from 12 bytes after the start of meta.
FindIlst ==
    /\ irPc = "ilst"
    /\ LET metaSize == getUint32(fileBuffer, metaOffset)
           r == findAtom(fileBuffer, ILST, metaOffset + 12, metaOffset + metaSize)
       IN /\ ilstOffset' = r.offset
          /\ IF r.threw THEN irPc' = "threw" /\ UNCHANGED irResult
             ELSE IF r.offset = -1 THEN ReturnOriginal
             ELSE irPc' = "atoms" /\ UNCHANGED irResult
    /\ UNCHANGED <<shape, fileBuffer, tags, moovOffset, udtaOffset, metaOffset,
                   newAtoms, addedSize, newBuffer, mdatWarned>>
    /\ UNCHANGED irOthers

\* Lines 57-67
CreateAtoms ==
    /\ irPc = "atoms"
    /\ newAtoms' = BuildAtoms(tags)
    /\ addedSize' = SumLen(newAtoms')
    /\ IF addedSize' = 0 THEN ReturnOriginal
       ELSE irPc' = "splice" /\ UNCHANGED irResult
    /\ UNCHANGED <<shape, fileBuffer, tags, moovOffset, udtaOffset, metaOffset,
                   ilstOffset, newBuffer, mdatWarned>>
    /\ UNCHANGED irOthers

\* Lines 73-89
SpliceAtoms ==
    /\ irPc = "splice"
    /\ LET ilstSize == getUint32(fileBuffer, ilstOffset)
           r == Splice(fileBuffer, newAtoms, ilstOffset + ilstSize)
       IN /\ newBuffer' = r.buf
          /\ irPc' = IF r.threw THEN "threw" ELSE "sizes"
    /\ UNCHANGED <<shape, fileBuffer, tags, moovOffset, udtaOffset, metaOffset,
                   ilstOffset, newAtoms, addedSize, mdatWarned, irResult>>
    /\ UNCHANGED irOthers

\* Lines 94-107
WriteSizes ==
    /\ irPc = "sizes"
    /\ newBuffer' = UpdateSizes(newBuffer, fileBuffer, moovOffset, udtaOffset,
                                metaOffset, ilstOffset, addedSize)
    /\ irPc' = "mdat"
    /\ UNCHANGED <<shape, fileBuffer, tags, moovOffset, udtaOffset, metaOffset,
                   ilstOffset, newAtoms, addedSize, mdatWarned, irResult>>
    /\ UNCHANGED irOthers

\* A check that blocks the operation: with mdat after moov the original
\* file is returned.
CheckMdatBlocks ==
    /\ irPc = "mdat"
    /\ LET r == findAtom(fileBuffer, MDAT, 0, Len(fileBuffer))
       IN IF r.threw
          THEN irPc' = "threw" /\ UNCHANGED <<mdatWarned, irResult>>
          ELSE /\ mdatWarned' = (r.offset > moovOffset)
               /\ irResult' = IF r.offset > moovOffset THEN fileBuffer
                              ELSE newBuffer
               /\ irPc' = "returned"
    /\ UNCHANGED <<shape, fileBuffer, tags, moovOffset, udtaOffset, metaOffset,
                   ilstOffset, newAtoms, addedSize, newBuffer>>
    /\ UNCHANGED irOthers

\* Lines 118-124: mdat is looked for from offset 0 of the ORIGINAL file;
\* when it lies after moov a warning is logged; the new buffer is returned.
CheckMdat ==
    /\ irPc = "mdat"
    /\ LET r == findAtom(fileBuffer, MDAT, 0, Len(fileBuffer))
       IN IF r.threw
          THEN irPc' = "threw" /\ UNCHANGED <<mdatWarned, irResult>>
          ELSE /\ mdatWarned' = (r.offset > moovOffset)
               /\ irResult' = newBuffer
               /\ irPc' = "returned"
    /\ UNCHANGED <<shape, fileBuffer, tags, moovOffset, udtaOffset, metaOffset,
                   ilstOffset, newAtoms, addedSize, newBuffer>>
    /\ UNCHANGED irOthers

\* ---- injectReplayGain as a function of its arguments -------------------
\* What a call gives: it raised, or it resolved with result; patched is
\* the buffer of lines 73-107 (result itself when nothing was inserted),
\* warned tells whether line 120 logged its warning.
Threw == [threw |-> TRUE, result |-> <<-1>>, patched |-> <<-1>>, warned |-> FALSE]

Unpatched(buf) == [threw |-> FALSE, result |-> buf, patched |-> buf, warned |-> FALSE]

\* Lines 56-124 with the insertion point at the head of ilst's children.
InjectAtHead(buf, entries, moovO, udtaO, metaO, ilstO) ==
    LET atoms == BuildAtoms(entries)
        added == SumLen(atoms)
        sp == Splice(buf, atoms, ilstO + 8)
        sized == UpdateSizes(sp.buf, buf, moovO, udtaO, metaO, ilstO, added)
    IN IF added = 0 THEN Unpatched(buf)
       ELSE [threw |-> sp.threw, result |-> sized, patched |-> sized,
             warned |-> FALSE]

\* Lines 56-124, the four offsets being known.
InjectAt(buf, entries, moovO, udtaO, metaO, ilstO) ==
    LET atoms == BuildAtoms(entries)
        added == SumLen(atoms)
        sp == Splice(buf, atoms, ilstO + getUint32(buf, ilstO))
        sized == UpdateSizes(sp.buf, buf, moovO, udtaO, metaO, ilstO, added)
        mdat == findAtom(buf, MDAT, 0, Len(buf))
    IN IF added = 0 THEN Unpatched(buf)
       ELSE IF sp.threw \/ mdat.threw THEN Threw
       ELSE [threw |-> FALSE, result |-> sized, patched |-> sized,
             warned |-> mdat.offset > moovO]

\* Lines 17-125.
injectReplayGain(buf, entries) ==
    LET moov == findAtom(buf, MOOV, 0, Len(buf))
    IN IF moov.threw THEN Threw
       ELSE IF moov.offset = -1 THEN Unpatched(buf)
       ELSE
    LET udta == findAtom(buf, UDTA, moov.offset + 8,
                         moov.offset + getUint32(buf, moov.offset))
    IN IF udta.threw THEN Threw
       ELSE IF udta.offset = -1 THEN Unpatched(buf)
       ELSE
    LET meta == findAtom(buf, META, udta.offset + 8,
                         udta.offset + getUint32(buf, udta.offset))
    IN IF meta.threw THEN Threw
       ELSE IF meta.offset = -1 THEN Unpatched(buf)
       ELSE
    LET ilst == findAtom(buf, ILST, meta.offset + 12,
                         meta.offset + getUint32(buf, meta.offset))
    IN IF ilst.threw THEN Threw
       ELSE IF ilst.offset = -1 THEN Unpatched(buf)
       ELSE InjectAt(buf, entries, moov.offset, udta.offset, meta.offset,
                     ilst.offset)

\* ======================================================================
\* m4a-utils.ts: two injectReplayGain calls in a row, and one call with
\* the tags of both
\* ======================================================================

\* The input files: well-formed, the whole chain present, behind ftyp.
CoShapes ==
    {s \in Shapes : s.damage = "none" /\ s.depth = 4 /\ s.pre = 1 /\ s.trak}

\* The tag objects: up to MaxEach of three tags with a non-empty value,
\* under distinct keys.
CoTagPool == <<TagPool[1], TagPool[2], TagPool[4]>>

CoTagLists ==
    UNION {{[k \in 1..n |-> CoTagPool[f[k]]] :
              f \in {g \in [1..n -> 1..Len(CoTagPool)] :
                        \A a, b \in 1..n : a # b => g[a] # g[b]}} :
           n \in 0..MaxEach}

\* The keys of the two tag objects are distinct, so that the entries of
\* the first followed by those of the second are the entries of an object.
DisjointKeys(a, b) ==
    \A i \in 1..Len(a), j \in 1..Len(b) : a[i].key # b[j].key

CoInit ==
    /\ coShape \in CoShapes
    /\ coTagsA \in CoTagLists
    /\ coTagsB \in CoTagLists
    /\ coPc = "idle"
    /\ coFirst = NoBuffer
    /\ coSecond = NoBuffer
    /\ coBoth = NoBuffer
    /\ DsIdle
    /\ IrIdle
    /\ MfIdle
    /\ TrIdle
    /\ BaIdle
    /\ FaIdle
    /\ FfIdle

\* injectReplayGain(file, A) resolves.
InjectFirst ==
    /\ coPc = "idle"
    /\ LET r == injectReplayGain(ShapeFile(coShape), coTagsA)
       IN /\ coPc' = IF r.threw THEN "threw" ELSE "first"
          /\ coFirst' = r.result
    /\ UNCHANGED <<coShape, coTagsA, coTagsB, coSecond, coBoth>>
    /\ UNCHANGED coOthers

\* injectReplayGain(what the first call gave, B) resolves.
InjectSecond ==
    /\ coPc = "first"
    /\ LET r == injectReplayGain(coFirst, coTagsB)
       IN /\ coPc' = IF r.threw THEN "threw" ELSE "second"
          /\ coSecond' = r.result
    /\ UNCHANGED <<coShape, coTagsA, coTagsB, coFirst, coBoth>>
    /\ UNCHANGED coOthers

\* injectReplayGain(file, the entries of A followed by those of B) resolves.
InjectBoth ==
    /\ coPc = "second"
    /\ DisjointKeys(coTagsA, coTagsB)
    /\ LET r == injectReplayGain(ShapeFile(coShape), coTagsA \o coTagsB)
       IN /\ coPc' = IF r.threw THEN "threw" ELSE "done"
          /\ coBoth' = r.result
    /\ UNCHANGED <<coShape, coTagsA, coTagsB, coFirst, coSecond>>
    /\ UNCHANGED coOthers

\* ======================================================================
\* m4a-utils.ts: one findAtom call, loop iteration by loop iteration
\* ======================================================================
\* `while (offset < end - 8)`  (line 129)
ScanContinues(offset, end) == offset < end - 8

\* A size check that lets every size through.
InvalidSizeNever(size) == FALSE

\* `if (size < 8) return -1`  (line 131)
InvalidSize(size) == size < 8

\* An advance by the header only, which walks into the atom's children.
NextOffsetIntoChildren(offset, size) == offset + 8

\* `offset += size`  (line 138)
NextOffset(offset, size) == offset + size

\* ---- the input views -------------------------------------------------
\* The atoms a view is put together from: an empty ilst, an ilst with a
\* child, a free atom, a free atom whose only child is an ilst, headers
\* whose size field is below 8 (one of them of type ilst), a header whose
\* size field points 40 bytes on, and three stray bytes.
AtomPool ==
    << Atom(ILST, <<>>),
       Atom(ILST, Atom(FREE, <<1>>)),
       Atom(FREE, <<0>>),
       Atom(FREE, Atom(ILST, <<>>)),
       <<0, 0, 0, 4>> \o FREE,
       <<0, 0, 0, 0>> \o ILST,
       <<0, 0, 0, 40>> \o FREE,
       <<0, 0, 0>> >>

FaViews ==
    UNION {{Flatten([k \in 1..n |-> AtomPool[f[k]]]) :
              f \in [1..n -> 1..Len(AtomPool)]} : n \in 0..MaxAtoms}

FaTypes == {ILST, FREE}

\* start: 4-byte aligned offsets, one of them negative; end: every offset
\* of the view and up to 4 bytes past it (injectReplayGain passes
\* offset + size of the parent, which a damaged file puts past the end).
FaInit ==
    /\ faView \in FaViews
    /\ faType \in FaTypes
    /\ faStart \in {-4, 0, 4, 8, 12, 16}
    /\ faEnd \in 0..(Len(faView) + 4)
    /\ faOffset = faStart
    /\ faPc = "loop"
    /\ faResult = -1
    /\ DsIdle
    /\ IrIdle
    /\ MfIdle
    /\ TrIdle
    /\ BaIdle
    /\ CoIdle
    /\ FfIdle

\* The loop condition of line 129 fails: `return -1` (line 140).
ScanEnded ==
    /\ faPc = "loop"
    /\ ~ScanContinues(faOffset, faEnd)
    /\ faPc' = "returned"
    /\ faResult' = -1
    /\ UNCHANGED <<faView, faType, faStart, faEnd, faOffset>>
    /\ UNCHANGED faOthers

\* getUint32 (line 130) or getUint8 (line 146) is given an offset outside
\* the view: the DataView raises a RangeError, which findAtom lets through.
ReadRaised ==
    /\ faPc = "loop"
    /\ ScanContinues(faOffset, faEnd)
    /\ \/ ~InRange(faView, faOffset, 4)
       \/ /\ InRange(faView, faOffset, 4)
          /\ ~InvalidSize(getUint32(faView, faOffset))
          /\ ~InRange(faView, faOffset + 4, 4)
    /\ faPc' = "threw"
    /\ UNCHANGED <<faView, faType, faStart, faEnd, faOffset, faResult>>
    /\ UNCHANGED faOthers

\* Line 131: the size read is below 8.
SizeInvalid ==
    /\ faPc = "loop"
    /\ ScanContinues(faOffset, faEnd)
    /\ InRange(faView, faOffset, 4)
    /\ InvalidSize(getUint32(faView, faOffset))
    /\ faPc' = "returned"
    /\ faResult' = -1
    /\ UNCHANGED <<faView, faType, faStart, faEnd, faOffset>>
    /\ UNCHANGED faOthers

\* Lines 133-136: the type read is the one looked for.
TypeMatched ==
    /\ faPc = "loop"
    /\ ScanContinues(faOffset, faEnd)
    /\ InRange(faView, faOffset, 8)
    /\ ~InvalidSize(getUint32(faView, faOffset))
    /\ getAtomType(faView, faOffset + 4) = faType
    /\ faPc' = "returned"
    /\ faResult' = faOffset
    /\ UNCHANGED <<faView, faType, faStart, faEnd, faOffset>>
    /\ UNCHANGED faOthers

\* Line 138: another type, the loop goes to the next sibling.
NextSibling ==
    /\ faPc = "loop"
    /\ ScanContinues(faOffset, faEnd)
    /\ InRange(faView, faOffset, 8)
    /\ ~InvalidSize(getUint32(faView, faOffset))
    /\ getAtomType(faView, faOffset + 4) # faType
    /\ faOffset' = NextOffset(faOffset, getUint32(faView, faOffset))
    /\ UNCHANGED <<faView, faType, faStart, faEnd, faPc, faResult>>
    /\ UNCHANGED faOthers

\* ======================================================================
\* tidal-client.ts: the manifest decoding of getStreamInfo
\* ======================================================================

\* getAttribute / querySelector / textContent giving null.
NoAttr == <<-1>>

HTTP == <<104, 116, 116, 112, 58, 47, 47>>            \* 'http://'
HTTPS == <<104, 116, 116, 112, 115, 58, 47, 47>>      \* 'https://'
NUMBER == <<36, 78, 117, 109, 98, 101, 114, 36>>      \* '$Number$'

\* String.prototype.indexOf(pat): the first 1-based place pat occurs at, 0
\* when it does not occur.
IndexOf(str, pat) ==
    LET hits == {k \in 1..(Len(str) - Len(pat) + 1) :
                    SubSeq(str, k, k + Len(pat) - 1) = pat}
    IN IF hits = {} THEN 0 ELSE CHOOSE k \in hits : \A j \in hits : k <= j

\* String.prototype.includes
Includes(str, pat) == IndexOf(str, pat) # 0

\* String.prototype.replace with a string pattern: the FIRST occurrence
\* only (the replacements used hold no `$`).
Replace(str, pat, rep) ==
    LET k == IndexOf(str, pat)
    IN IF k = 0 THEN str
       ELSE SubSeq(str, 1, k - 1) \o rep \o SubSeq(str, k + Len(pat), Len(str))

\* i.toString() for an integer i >= 0 (line 312): its decimal digits.
RECURSIVE toDecimalString(_)
toDecimalString(i) ==
    IF i < 10 THEN <<48 + i>> ELSE toDecimalString(i \div 10) \o <<48 + (i % 10)>>

IsDigit(c) == c >= 48 /\ c <= 57
IsSpace(c) == c \in {9, 10, 11, 12, 13, 32}

\* the value of the longest prefix of digits of str, after acc
RECURSIVE DigitsValue(_, _)
DigitsValue(str, acc) ==
    IF str = <<>> \/ ~IsDigit(Head(str)) THEN acc
    ELSE DigitsValue(Tail(str), 10 * acc + (Head(str) - 48))

RECURSIVE SkipSpace(_)
SkipSpace(str) ==
    IF str # <<>> /\ IsSpace(Head(str)) THEN SkipSpace(Tail(str)) ELSE str

\* parseInt(str, 10): leading white space is skipped, a sign is read, then
\* the longest run of digits; NaN when there is no digit.
ParseInt(str) ==
    LET t == SkipSpace(str)
        neg == t # <<>> /\ Head(t) = 45
        u == IF t # <<>> /\ Head(t) \in {43, 45} THEN Tail(t) ELSE t
    IN IF u = <<>> \/ ~IsDigit(Head(u)) THEN [nan |-> TRUE, n |-> 0]
       ELSE [nan |-> FALSE,
             n |-> IF neg THEN 0 - DigitsValue(u, 0) ELSE DigitsValue(u, 0)]

\* S.getAttribute('r') || '0'   (line 305)
AttrOrZero(attr) == IF attr = NoAttr \/ attr = <<>> THEN <<48>> ELSE attr

\* The forEach of lines 304-307 with every r added, also r <= 0.
RECURSIVE CountRepeatsNoGuard(_)
CountRepeatsNoGuard(rs) ==
    IF rs = <<>> THEN 0
    ELSE LET r == ParseInt(AttrOrZero(Head(rs)))
         IN (IF ~r.nan THEN r.n ELSE 0) + CountRepeatsNoGuard(Tail(rs))

\* The forEach of lines 304-307: r is added when r > 0 (NaN > 0 is false).
RECURSIVE CountRepeats(_)
CountRepeats(rs) ==
    IF rs = <<>> THEN 0
    ELSE LET r == ParseInt(AttrOrZero(Head(rs)))
         IN (IF ~r.nan /\ r.n > 0 THEN r.n ELSE 0) + CountRepeats(Tail(rs))

\* Lines 302-307
SegmentCount(rs) == 2 + CountRepeats(rs)

\* Lines 310-313 numbering the segments from 1.
SegmentUrlsFromOne(media, count) ==
    [k \in 1..count |-> Replace(Replace(media, NUMBER, toDecimalString(k)), HTTP, HTTPS)]

\* Lines 310-313: the URL of every i in [0, totalCount).
SegmentUrls(media, count) ==
    [k \in 1..count |-> Replace(Replace(media, NUMBER, toDecimalString(k - 1)), HTTP, HTTPS)]

\* ---- atob and JSON.parse (lines 272, 280, 395) ------------------------
\* the value of a character of the base64 alphabet, -1 for any other
B64Value(c) ==
    IF c >= 65 /\ c <= 90 THEN c - 65
    ELSE IF c >= 97 /\ c <= 122 THEN c - 71
    ELSE IF c >= 48 /\ c <= 57 THEN c + 4
    ELSE IF c = 43 THEN 62
    ELSE IF c = 47 THEN 63
    ELSE 0 - 1

\* atob first drops ASCII white space (tab, LF, FF, CR, space)
RECURSIVE StripSpace(_)
StripSpace(str) ==
    IF str = <<>> THEN <<>>
    ELSE IF Head(str) \in {9, 10, 12, 13, 32} THEN StripSpace(Tail(str))
    ELSE <<Head(str)>> \o StripSpace(Tail(str))

\* then one or two `=` ending a text whose length is a multiple of 4
DropPadding(str) ==
    LET n == Len(str)
    IN IF n > 0 /\ n % 4 = 0 /\ str[n] = 61
       THEN IF str[n - 1] = 61 THEN SubSeq(str, 1, n - 2) ELSE SubSeq(str, 1, n - 1)
       ELSE str

\* four characters give three bytes; of a rest of three or two characters
\* the bits that fill no byte are dropped
RECURSIVE DecodeGroups(_)
DecodeGroups(str) ==
    IF Len(str) >= 4
    THEN LET n == B64Value(str[1]) * 262144 + B64Value(str[2]) * 4096
                  + B64Value(str[3]) * 64 + B64Value(str[4])
         IN <<n \div 65536, (n \div 256) % 256, n % 256>>
            \o DecodeGroups(SubSeq(str, 5, Len(str)))
    ELSE IF Len(str) = 3
    THEN LET n == B64Value(str[1]) * 4096 + B64Value(str[2]) * 64 + B64Value(str[3])
         IN <<n \div 1024, (n \div 4) % 256>>
    ELSE IF Len(str) = 2
    THEN <<(B64Value(str[1]) * 64 + B64Value(str[2])) \div 16>>
    ELSE <<>>

\* atob(str): the decoded text, or an InvalidCharacterError thrown
atob(str) ==
    LET t == DropPadding(StripSpace(str))
    IN IF Len(t) % 4 = 1 \/ \E k \in 1..Len(t) : B64Value(t[k]) < 0
       THEN [threw |-> TRUE, out |-> <<>>]
       ELSE [threw |-> FALSE, out |-> DecodeGroups(t)]

\* A JSON string without escapes, read at the head of text.
ReadString(text) ==
    LET k == IF text = <<>> THEN 0 ELSE IndexOf(Tail(text), <<34>>)
    IN IF text = <<>> \/ Head(text) # 34 \/ k = 0
       THEN [threw |-> TRUE, value |-> <<>>, rest |-> <<>>]
       ELSE [threw |-> FALSE, value |-> SubSeq(Tail(text), 1, k - 1),
             rest |-> SubSeq(Tail(text), k + 1, Len(text) - 1)]

\* The strings of an array after its `[` or a `,`, up to the `]`.
RECURSIVE ReadItems(_, _)
ReadItems(text, acc) ==
    LET r == ReadString(text)
    IN IF r.threw \/ r.rest = <<>>
       THEN [threw |-> TRUE, value |-> <<>>, rest |-> <<>>]
       ELSE IF Head(r.rest) = 44
       THEN ReadItems(Tail(r.rest), Append(acc, r.value))
       ELSE IF Head(r.rest) = 93
       THEN [threw |-> FALSE, value |-> Append(acc, r.value), rest |-> Tail(r.rest)]
       ELSE [threw |-> TRUE, value |-> <<>>, rest |-> <<>>]

\* An array of strings read at the head of text.
ReadArray(text) ==
    IF Len(text) >= 2 /\ text[1] = 91 /\ text[2] = 93
    THEN [threw |-> FALSE, value |-> <<>>, rest |-> SubSeq(text, 3, Len(text))]
    ELSE IF text # <<>> /\ Head(text) = 91
    THEN ReadItems(Tail(text), <<>>)
    ELSE [threw |-> TRUE, value |-> <<>>, rest |-> <<>>]

\* JSON.parse(text) followed by `.urls` (lines 272-273), for the texts a
\* BTS manifest holds: `{}` or an object of one member whose value is an
\* array of strings. urls is <<>> when the object has no member urls.
\* Any other text met here is cut short, a SyntaxError.
JSONparse(text) ==
    LET key == IF text # <<>> THEN ReadString(Tail(text))
               ELSE [threw |-> TRUE, value |-> <<>>, rest |-> <<>>]
        arr == IF ~key.threw /\ key.rest # <<>> /\ Head(key.rest) = 58
               THEN ReadArray(Tail(key.rest))
               ELSE [threw |-> TRUE, value |-> <<>>, rest |-> <<>>]
    IN IF text = <<123, 125>> THEN [threw |-> FALSE, urls |-> <<>>]
       ELSE IF text = <<>> \/ Head(text) # 123 \/ arr.threw \/ arr.rest # <<125>>
       THEN [threw |-> TRUE, urls |-> <<>>]
       ELSE [threw |-> FALSE,
             urls |-> IF key.value = <<117, 114, 108, 115>> THEN arr.value ELSE <<>>]

\* ---- the manifests ---------------------------------------------------
\* A manifest as the decoding sees it:
\*   endpoint  "stream" (getStreamInfo) or "stream-atmos" (getStreamInfoAtmos)
\*   mime      manifestMimeType: "bts", "dash" or "other"
\*   payload   (bts) data.manifest, the base64 text
\*   valid     (dash) atob accepts data.manifest
\*   xmlError  (dash) the decoded text is not well-formed XML. DOMParser
\*             does not throw then: it hands back a document holding a
\*             parsererror element and, in some browsers, the elements met
\*             before the error. The fields below are that document.
\*   baseUrl   (dash) textContent of the first BaseURL element, NoAttr
\*             when the document has none
\*   repBase   (dash) textContent of the first BaseURL under a
\*             Representation, NoAttr when there is none
\*   template  (dash) the document has a SegmentTemplate
\*   media, initialization   its attributes, NoAttr when absent
\*   rs        the r attributes of its SegmentTimeline S elements, in
\*             document order, NoAttr for an S without r
MediaTemplate ==
    <<104, 116, 116, 112, 58, 47, 47, 104, 47, 36, 78, 117, 109, 98, 101, 114,
      36, 46, 109, 112, 52>>                       \* http://h/$Number$.mp4
MediaPlain == <<104, 116, 116, 112, 58, 47, 47, 109, 47, 97, 46, 109, 112, 52>>
                                                   \* http://m/a.mp4
InitUrl ==
    <<104, 116, 116, 112, 58, 47, 47, 104, 47, 105, 110, 105, 116, 46, 109,
      112, 52>>                                    \* http://h/init.mp4
BaseUrlText ==
    <<104, 116, 116, 112, 58, 47, 47, 98, 47, 102, 46, 102, 108, 97, 99>>
                                                   \* http://b/f.flac
RepBaseText ==
    <<104, 116, 116, 112, 58, 47, 47, 114, 47, 120, 46, 102, 108, 97, 99>>
                                                   \* http://r/x.flac
MediaTemplateSecure ==
    <<104, 116, 116, 112, 115, 58, 47, 47, 104, 47, 36, 78, 117, 109, 98, 101,
      114, 36, 46, 109, 112, 52>>                  \* https://h/$Number$.mp4
InitZero ==
    <<104, 116, 116, 112, 58, 47, 47, 104, 47, 48, 46, 109, 112, 52>>
                                                   \* http://h/0.mp4
\* base64 of {"urls":["http://x/seg"]}
PayloadOneUrl ==
    <<101, 121, 74, 49, 99, 109, 120, 122, 73, 106, 112, 98, 73, 109, 104,
      48, 100, 72, 65, 54, 76, 121, 57, 52, 76, 51, 78, 108, 90, 121, 74,
      100, 102, 81, 61, 61>>
\* base64 of {"urls":["https://y/seg","http://x/seg"]}
PayloadTwoUrls ==
    <<101, 121, 74, 49, 99, 109, 120, 122, 73, 106, 112, 98, 73, 109, 104,
      48, 100, 72, 66, 122, 79, 105, 56, 118, 101, 83, 57, 122, 90, 87,
      99, 105, 76, 67, 74, 111, 100, 72, 82, 119, 79, 105, 56, 118, 101,
      67, 57, 122, 90, 87, 99, 105, 88, 88, 48, 61>>
\* base64 of {"urls":[]}
PayloadNoUrls ==
    <<101, 121, 74, 49, 99, 109, 120, 122, 73, 106, 112, 98, 88, 88, 48,
      61>>
\* base64 of {}
PayloadEmptyObject == <<101, 51, 48, 61>>
\* base64 of {"urls":["http://x/s  (a JSON text cut short)
PayloadCutJson ==
    <<101, 121, 74, 49, 99, 109, 120, 122, 73, 106, 112, 98, 73, 109, 104,
      48, 100, 72, 65, 54, 76, 121, 57, 52, 76, 51, 77, 61>>
\* e%30  (not base64)
PayloadNotBase64 == <<101, 37, 51, 48>>

BtsPayloads ==
    {PayloadOneUrl, PayloadTwoUrls, PayloadNoUrls, PayloadEmptyObject,
     PayloadCutJson, PayloadNotBase64}

BtsUrl == <<104, 116, 116, 112, 58, 47, 47, 120, 47, 115, 101, 103>>
                                                   \* http://x/seg
BtsUrlSecure == <<104, 116, 116, 112, 115, 58, 47, 47, 121, 47, 115, 101, 103>>
                                                   \* https://y/seg

\* r absent, "0", "3", "5", "-1"
RAttrs == {NoAttr, <<48>>, <<51>>, <<53>>, <<45, 49>>}

RLists == UNION {[1..n -> RAttrs] : n \in 0..MaxS}

DashManifest(base, rep, tmpl, media, init, rs) ==
    [endpoint |-> "stream", mime |-> "dash", payload |-> <<>>, valid |-> TRUE,
     xmlError |-> FALSE, baseUrl |-> base, repBase |-> rep, template |-> tmpl,
     media |-> media, initialization |-> init, rs |-> rs]

\* a manifest without a document: a BTS payload, an unknown type
NoDocument == DashManifest(NoAttr, NoAttr, FALSE, NoAttr, NoAttr, <<>>)

Manifests ==
    \* segmented streams with every timeline
    {DashManifest(NoAttr, NoAttr, TRUE, MediaTemplate, InitUrl, rs) : rs \in RLists}
    \cup
    \* every mix of BaseURL, SegmentTemplate and its attributes
    {DashManifest(base, rep, tmpl, media, init, rs) :
        base \in {NoAttr, <<>>, BaseUrlText},
        rep \in {NoAttr, RepBaseText},
        tmpl \in BOOLEAN,
        media \in {NoAttr, MediaTemplate, MediaTemplateSecure, MediaPlain},
        init \in {NoAttr, InitUrl, InitZero},
        rs \in {<<>>, << <<51>> >>}}
    \cup
    \* a payload atob rejects, an unknown type
    {[NoDocument EXCEPT !.valid = FALSE], [NoDocument EXCEPT !.mime = "other"]}
    \cup
    \* XML that is not well formed: the document holds nothing, or what
    \* came before the error
    {[DashManifest(base, NoAttr, tmpl, IF tmpl THEN MediaTemplate ELSE NoAttr,
                   NoAttr, <<>>) EXCEPT !.xmlError = TRUE] :
        base \in {NoAttr, BaseUrlText}, tmpl \in BOOLEAN}
    \cup
    {[NoDocument EXCEPT !.mime = "bts", !.payload = p] : p \in BtsPayloads}
    \cup
    \* what the Atmos endpoint may answer
    {[NoDocument EXCEPT !.endpoint = "stream-atmos", !.mime = "bts", !.payload = p] :
        p \in BtsPayloads}
    \cup
    {[NoDocument EXCEPT !.endpoint = "stream-atmos", !.mime = "other"],
     [DashManifest(NoAttr, NoAttr, TRUE, MediaTemplate, InitUrl, << <<51>> >>)
         EXCEPT !.endpoint = "stream-atmos"]}

\* A document is well formed: a BaseURL under a Representation is a
\* BaseURL, and attributes need their element.
WellFormedManifest(m) ==
    /\ m.baseUrl = NoAttr => m.repBase = NoAttr
    /\ ~m.template => (m.media = NoAttr /\ m.initialization = NoAttr /\ m.rs = <<>>)

MfInit ==
    /\ manifest \in {m \in Manifests : WellFormedManifest(m)}
    /\ mfPc = "idle"
    /\ streamUrl = <<>>
    /\ streamUrls = <<>>
    /\ totalCount = 0
    /\ mfLogged = "nothing"
    /\ DsIdle
    /\ IrIdle
    /\ TrIdle
    /\ BaIdle
    /\ FaIdle
    /\ CoIdle
    /\ FfIdle

\* JSON.parse(atob(data.manifest))  (lines 272, 395)
ManifestJson(payload) ==
    LET text == atob(payload)
    IN IF text.threw THEN [threw |-> TRUE, urls |-> <<>>] ELSE JSONparse(text.out)

\* manifestJson.urls?.[0] || '' handed on as it is.
FirstUrlAsIs(manifestJson) ==
    IF manifestJson.urls # <<>> THEN manifestJson.urls[1] ELSE <<>>

\* (manifestJson.urls?.[0] || '').replace('http://', 'https://')
FirstUrl(manifestJson) ==
    Replace(IF manifestJson.urls # <<>> THEN manifestJson.urls[1] ELSE <<>>,
            HTTP, HTTPS)

\* Lines 269-276: a BTS manifest; a payload atob or JSON.parse rejects is
\* caught and logged, streamUrl stays ''.
DecodeBts ==
    /\ mfPc = "idle"
    /\ manifest.endpoint = "stream"
    /\ manifest.mime = "bts"
    /\ LET manifestJson == ManifestJson(manifest.payload)
       IN IF ~manifestJson.threw
          THEN /\ streamUrl' = FirstUrl(manifestJson)
               /\ UNCHANGED mfLogged
          ELSE /\ mfLogged' = "Failed to decode BTS manifest"
               /\ UNCHANGED streamUrl
    /\ mfPc' = "returned"
    /\ UNCHANGED <<manifest, streamUrls, totalCount>>
    /\ UNCHANGED mfOthers

\* Lines 342-344: neither type; a warning, then the return of line 346.
DecodeUnknown ==
    /\ mfPc = "idle"
    /\ manifest.endpoint = "stream"
    /\ manifest.mime = "other"
    /\ mfLogged' = "Unknown manifest type"
    /\ mfPc' = "returned"
    /\ UNCHANGED <<manifest, streamUrl, streamUrls, totalCount>>
    /\ UNCHANGED mfOthers

\* Lines 277-291: a DASH manifest is parsed and BaseURL looked for first.
ParseDash ==
    /\ mfPc = "idle"
    /\ manifest.endpoint = "stream"
    /\ manifest.mime = "dash"
    /\ IF ~manifest.valid
       THEN /\ mfLogged' = "Failed to decode DASH manifest"
            /\ mfPc' = "returned"
            /\ UNCHANGED streamUrl
       ELSE IF manifest.baseUrl # NoAttr /\ manifest.baseUrl # <<>>
            THEN /\ streamUrl' = Replace(manifest.baseUrl, HTTP, HTTPS)
                 /\ mfPc' = "check"
                 /\ UNCHANGED mfLogged
            ELSE /\ mfPc' = "template"
                 /\ UNCHANGED <<streamUrl, mfLogged>>
    /\ UNCHANGED <<manifest, streamUrls, totalCount>>
    /\ UNCHANGED mfOthers

\* Lines 293-307 and 319-325: the SegmentTemplate and which of its
\* attributes decides; for a $Number$ template the segments are counted.
ReadTemplate ==
    /\ mfPc = "template"
    /\ LET media == IF manifest.template THEN manifest.media ELSE NoAttr
           initialization == IF manifest.template THEN manifest.initialization
                             ELSE NoAttr
       IN IF media # NoAttr /\ media # <<>> /\ Includes(media, NUMBER)
             /\ manifest.template
          THEN /\ totalCount' = SegmentCount(manifest.rs)
               /\ mfPc' = "generate"
               /\ UNCHANGED streamUrl
          ELSE IF media # NoAttr /\ media # <<>>
          THEN /\ streamUrl' = Replace(media, HTTP, HTTPS)
               /\ mfPc' = "fallback"
               /\ UNCHANGED totalCount
          ELSE IF initialization # NoAttr /\ initialization # <<>>
          THEN /\ streamUrl' = Replace(initialization, HTTP, HTTPS)
               /\ mfPc' = "fallback"
               /\ UNCHANGED totalCount
          ELSE /\ mfPc' = "fallback"
               /\ UNCHANGED <<streamUrl, totalCount>>
    /\ UNCHANGED <<manifest, streamUrls, mfLogged>>
    /\ UNCHANGED mfOthers

\* Lines 309-318
GenerateUrls ==
    /\ mfPc = "generate"
    /\ LET generated == SegmentUrls(manifest.media, totalCount)
       IN IF Len(generated) > 0
          THEN /\ streamUrls' = generated
               /\ streamUrl' = generated[1]
          ELSE UNCHANGED <<streamUrl, streamUrls>>
    /\ mfPc' = "fallback"
    /\ UNCHANGED <<manifest, totalCount, mfLogged>>
    /\ UNCHANGED mfOthers

\* Lines 327-333
RepresentationFallback ==
    /\ mfPc = "fallback"
    /\ IF streamUrl = <<>> /\ Len(streamUrls) = 0
          /\ manifest.repBase # NoAttr /\ manifest.repBase # <<>>
       THEN streamUrl' = Replace(manifest.repBase, HTTP, HTTPS)
       ELSE UNCHANGED streamUrl
    /\ mfPc' = "check"
    /\ UNCHANGED <<manifest, streamUrls, totalCount, mfLogged>>
    /\ UNCHANGED mfOthers

\* Lines 336-358: an empty result is logged; the StreamInfo is returned.
ReturnStreamInfo ==
    /\ mfPc = "check"
    /\ IF streamUrl = <<>> /\ Len(streamUrls) = 0
       THEN mfLogged' = "Could not extract URL from DASH manifest"
       ELSE UNCHANGED mfLogged
    /\ mfPc' = "returned"
    /\ UNCHANGED <<manifest, streamUrl, streamUrls, totalCount>>
    /\ UNCHANGED mfOthers

\* getStreamInfoAtmos, lines 391-417: only a BTS manifest is decoded.
DecodeAtmos ==
    /\ mfPc = "idle"
    /\ manifest.endpoint = "stream-atmos"
    /\ IF manifest.mime = "bts"
       THEN LET manifestJson == ManifestJson(manifest.payload)
            IN IF ~manifestJson.threw
               THEN /\ streamUrl' = FirstUrl(manifestJson)
                    /\ UNCHANGED mfLogged
               ELSE /\ mfLogged' = "Failed to decode Atmos BTS manifest"
                    /\ UNCHANGED streamUrl
       ELSE /\ mfLogged' = "Unexpected Atmos manifest type"
            /\ UNCHANGED streamUrl
    /\ mfPc' = "returned"
    /\ UNCHANGED <<manifest, streamUrls, totalCount>>
    /\ UNCHANGED mfOthers

\* ======================================================================
\* downloader.ts: downloadTrack from the stream info to the audio data,
\* and downloadWithProgress
\* ======================================================================

\* response.body is null: `response.body?.getReader()` gives undefined
NoBody == << <<-1>> >>

\* What reader.read() can deliver before done: up to MaxChunks chunks.
ChunkPool == {<<>>, <<1>>, <<2, 3>>, <<1, 2, 3>>}
Bodies == UNION {[1..n -> ChunkPool] : n \in 0..MaxChunks}

\* the Response objects fetch can resolve with
Responses ==
    {[ok |-> FALSE]} \cup {[ok |-> TRUE, body |-> b] : b \in Bodies \cup {NoBody}}

\* Lines 433-438 with every chunk set at offset 0.
RECURSIVE CombineReadAtZero(_, _, _)
CombineReadAtZero(combined0, list, offset) ==
    IF list = <<>> THEN combined0
    ELSE CombineReadAtZero(WriteAt(combined0, Head(list), 0), Tail(list), 0)

\* Lines 433-438: each chunk is set at the running offset of a buffer of
\* `received` zero bytes.
RECURSIVE CombineRead(_, _, _)
CombineRead(combined0, list, offset) ==
    IF list = <<>> THEN combined0
    ELSE CombineRead(WriteAt(combined0, Head(list), offset), Tail(list),
                     offset + Len(Head(list)))

\* The manifests a track download is run on: timelines of at most one S.
TrackManifests == {m \in Manifests : WellFormedManifest(m) /\ Len(m.rs) <= 1}

\* downloadTrack awaits getStreamInfo / getStreamInfoAtmos (lines 780-790).
TrInit ==
    /\ manifest \in TrackManifests
    /\ mfPc = "idle"
    /\ streamUrl = <<>>
    /\ streamUrls = <<>>
    /\ totalCount = 0
    /\ mfLogged = "nothing"
    /\ trPc = "stream_info"
    /\ requested = <<>>
    /\ response = [ok |-> FALSE]
    /\ bodyLeft = <<>>
    /\ chunksRead = <<>>
    /\ received = 0
    /\ audioBuffer = Null
    /\ trError = "none"
    /\ DsIdle
    /\ IrIdle
    /\ BaIdle
    /\ FaIdle
    /\ CoIdle
    /\ FfIdle

\* Lines 792-794: a StreamInfo without any URL is an error.
CheckStreamInfo ==
    /\ trPc = "stream_info"
    /\ mfPc = "returned"
    /\ IF streamUrl = <<>> /\ Len(streamUrls) = 0
       THEN /\ trPc' = "error"
            /\ trError' = "Could not get stream URL"
       ELSE /\ trPc' = "download"
            /\ UNCHANGED trError
    /\ UNCHANGED <<requested, response, bodyLeft, chunksRead, received, audioBuffer>>
    /\ UNCHANGED dsVars
    /\ UNCHANGED trOthers

\* Lines 820-841: downloadSegments for a list of URLs, else
\* downloadWithProgress for the one URL; downloadSegments reads the
\* setting when it is called (line 451). The bodies the server holds are
\* told apart by the place of their URL in the plan.
StartAudioDownload ==
    /\ trPc = "download"
    /\ IF Len(streamUrls) > 0
       THEN /\ multi_thread_download' \in BOOLEAN
            /\ urls' = [k \in 1..Len(streamUrls) |-> k - 1]
            /\ outcome' = [k \in 0..(Len(streamUrls) - 1) |-> "pending"]
            /\ fetchCount' = [k \in 0..(Len(streamUrls) - 1) |-> 0]
            /\ dsPc' = "idle"
            /\ combined' = Null
            /\ dsError' = NoError
            /\ trPc' = "segments"
            /\ UNCHANGED <<batchStart, segIndex, inflight, reordered,
                           downloadedChunks, completedSegments>>
            /\ UNCHANGED <<requested, trError>>
       ELSE IF streamUrl # <<>>
       THEN /\ requested' = Append(requested, streamUrl)
            /\ trPc' = "fetch"
            /\ UNCHANGED trError
            /\ UNCHANGED dsVars
       ELSE /\ trPc' = "error"
            /\ trError' = "No stream URL available"
            /\ UNCHANGED requested
            /\ UNCHANGED dsVars
    /\ UNCHANGED <<response, bodyLeft, chunksRead, received, audioBuffer>>
    /\ UNCHANGED trOthers

\* downloadWithProgress, lines 401-416: the fetch resolves.
FetchResponded(resp) ==
    /\ trPc = "fetch"
    /\ resp \in Responses
    /\ response' = resp
    /\ IF ~resp.ok
       THEN /\ trPc' = "error"
            /\ trError' = "Download failed: status"
            /\ UNCHANGED <<bodyLeft, chunksRead, received>>
       ELSE IF resp.body = NoBody
       THEN /\ trPc' = "error"
            /\ trError' = "Failed to get response reader"
            /\ UNCHANGED <<bodyLeft, chunksRead, received>>
       ELSE /\ bodyLeft' = resp.body
            /\ chunksRead' = <<>>
            /\ received' = 0
            /\ trPc' = "read"
            /\ UNCHANGED trError
    /\ UNCHANGED <<requested, audioBuffer>>
    /\ UNCHANGED dsVars
    /\ UNCHANGED trOthers

\* Line 401: fetch rejects (network error).
FetchRejected ==
    /\ trPc = "fetch"
    /\ trPc' = "error"
    /\ trError' = "fetch failed"
    /\ UNCHANGED <<requested, response, bodyLeft, chunksRead, received, audioBuffer>>
    /\ UNCHANGED dsVars
    /\ UNCHANGED trOthers

\* Lines 418-440: one reader.read(); on done the chunks are combined and
\* the buffer is the audio data of line 843.
ReadChunk ==
    /\ trPc = "read"
    /\ IF bodyLeft = <<>>
       THEN /\ audioBuffer' = CombineRead([k \in 1..received |-> 0], chunksRead, 0)
            /\ trPc' = "audio"
            /\ UNCHANGED <<bodyLeft, chunksRead, received>>
       ELSE /\ chunksRead' = Append(chunksRead, Head(bodyLeft))
            /\ received' = received + Len(Head(bodyLeft))
            /\ bodyLeft' = Tail(bodyLeft)
            /\ UNCHANGED <<trPc, audioBuffer>>
    /\ UNCHANGED <<requested, response, trError>>
    /\ UNCHANGED dsVars
    /\ UNCHANGED trOthers

\* Line 419: reader.read() rejects (the connection broke).
ReadFailed ==
    /\ trPc = "read"
    /\ trPc' = "error"
    /\ trError' = "read failed"
    /\ UNCHANGED <<requested, response, bodyLeft, chunksRead, received, audioBuffer>>
    /\ UNCHANGED dsVars
    /\ UNCHANGED trOthers

\* Line 823: the awaited downloadSegments call settles.
SegmentsSettled ==
    /\ trPc = "segments"
    /\ dsPc \in {"returned", "rejected"}
    /\ IF dsPc = "returned"
       THEN /\ audioBuffer' = combined
            /\ trPc' = "audio"
            /\ UNCHANGED trError
       ELSE /\ trPc' = "error"
            /\ trError' = dsError.message
            /\ UNCHANGED audioBuffer
    /\ UNCHANGED <<requested, response, bodyLeft, chunksRead, received>>
    /\ UNCHANGED dsVars
    /\ UNCHANGED trOthers

\* ======================================================================
\* downloader.ts: downloadAlbum and downloadPlaylist
\* ======================================================================

\* the steps of processTrackData that can throw (lines 953-1073): the
\* stream info request, the check of line 992, the audio download,
\* loadFFmpeg, embedMetadata
FailSteps == {"stream_info", "no_url", "audio", "ffmpeg", "embed"}

\* A playlist item can be undefined (line 1224); album tracks are tracks.
TrackLists(kind) ==
    UNION {[1..n -> IF kind = "playlist" THEN {"track", "undefined"} ELSE {"track"}] :
              n \in 0..MaxTracks}

BaInit ==
    /\ batchKind \in {"album", "playlist"}
    /\ tracks \in TrackLists(batchKind)
    /\ baPc = "info"
    /\ trackIndex = 0
    /\ attempted = <<>>
    /\ skipped = {}
    /\ zipFiles = <<>>
    /\ failedLogged = <<>>
    /\ stage = "fetching"
    /\ baError = "none"
    /\ multi_thread_download \in BOOLEAN
    /\ urls = <<>>
    /\ dsPc = "unused"
    /\ batchStart = 0
    /\ segIndex = 0
    /\ inflight = {}
    /\ outcome = <<>>
    /\ reordered = FALSE
    /\ downloadedChunks = <<>>
    /\ completedSegments = 0
    /\ fetchCount = <<>>
    /\ combined = Null
    /\ dsError = NoError
    /\ IrIdle
    /\ MfIdle
    /\ TrIdle
    /\ FaIdle
    /\ CoIdle
    /\ FfIdle

\* The loop from index `from` up to its next await (lines 1113-1128,
\* 1219-1241): undefined playlist items are skipped, the next track is
\* reported and processTrackData called; after the last index the ZIP is
\* generated (lines 1144-1147, 1257-1260).
Advance(from) ==
    LET defined == {j \in from..(Len(tracks) - 1) : tracks[j + 1] # "undefined"}
    IN IF defined # {}
       THEN LET next == CHOOSE j \in defined : \A k \in defined : j <= k
            IN /\ trackIndex' = next
               /\ skipped' = skipped \cup (from..(next - 1))
               /\ attempted' = Append(attempted, next)
               /\ stage' = "fetching"
               /\ baPc' = "track"
       ELSE /\ trackIndex' = Len(tracks)
            /\ skipped' = skipped \cup (from..(Len(tracks) - 1))
            /\ stage' = "processing"
            /\ baPc' = "zip"
            /\ UNCHANGED attempted

\* The catch of the whole function (lines 1174-1182, 1294-1302).
RejectBatch(message) ==
    /\ stage' = "error"
    /\ baError' = message
    /\ baPc' = "rejected"

\* Lines 1086-1108 / 1196-1214: the album or playlist and its tracks
\* arrive; an empty list is an error.
InfoFetched ==
    /\ baPc = "info"
    /\ IF Len(tracks) = 0
       THEN /\ RejectBatch("has no tracks")
            /\ UNCHANGED <<trackIndex, attempted, skipped>>
       ELSE /\ Advance(0)
            /\ UNCHANGED baError
    /\ UNCHANGED <<batchKind, tracks, zipFiles, failedLogged>>
    /\ UNCHANGED baOthers

\* Lines 1086-1087 / 1196-1197: one of the two requests rejects.
InfoFailed ==
    /\ baPc = "info"
    /\ RejectBatch("info request failed")
    /\ UNCHANGED <<batchKind, tracks, trackIndex, attempted, skipped, zipFiles,
                   failedLogged>>
    /\ UNCHANGED baOthers

\* Lines 1128-1137 / 1241-1250: processTrackData resolves, the file goes
\* into the ZIP; with multi_thread_download a delay is awaited before the
\* next track unless this was the last index.
TrackResolved ==
    /\ baPc = "track"
    /\ zipFiles' = Append(zipFiles, trackIndex)
    /\ IF multi_thread_download /\ trackIndex < Len(tracks) - 1
       THEN /\ baPc' = "delay"
            /\ UNCHANGED <<trackIndex, attempted, skipped, stage>>
       ELSE Advance(trackIndex + 1)
    /\ UNCHANGED <<batchKind, tracks, failedLogged, baError>>
    /\ UNCHANGED baOthers

\* Lines 1136, 1249: the 1500 ms are over.
DelayElapsed ==
    /\ baPc = "delay"
    /\ Advance(trackIndex + 1)
    /\ UNCHANGED <<batchKind, tracks, zipFiles, failedLogged, baError>>
    /\ UNCHANGED baOthers

\* processTrackData without the try of lines 1127 / 1240 around it.
TrackRejectedPropagates(step) ==
    /\ baPc = "track"
    /\ step \in FailSteps
    /\ RejectBatch(step)
    /\ UNCHANGED <<batchKind, tracks, trackIndex, attempted, skipped, zipFiles,
                   failedLogged>>
    /\ UNCHANGED baOthers

\* Lines 1138-1141 / 1251-1254: processTrackData rejects at some step; the
\* error is logged and the loop goes on.
TrackRejected(step) ==
    /\ baPc = "track"
    /\ step \in FailSteps
    /\ failedLogged' = Append(failedLogged, [index |-> trackIndex, step |-> step])
    /\ Advance(trackIndex + 1)
    /\ UNCHANGED <<batchKind, tracks, zipFiles, baError>>
    /\ UNCHANGED baOthers

\* Lines 1147-1172 / 1260-1292: the ZIP is generated and saved.
ZipGenerated ==
    /\ baPc = "zip"
    /\ stage' = "complete"
    /\ baPc' = "resolved"
    /\ UNCHANGED <<batchKind, tracks, trackIndex, attempted, skipped, zipFiles,
                   failedLogged, baError>>
    /\ UNCHANGED baOthers

\* Lines 1147 / 1260: generateAsync rejects.
ZipFailed ==
    /\ baPc = "zip"
    /\ RejectBatch("zip failed")
    /\ UNCHANGED <<batchKind, tracks, trackIndex, attempted, skipped, zipFiles,
                   failedLogged>>
    /\ UNCHANGED baOthers

\* ======================================================================
\* downloader.ts: loadFFmpeg
\* ======================================================================

\* The calls are numbered in the order in which they are made; the FFmpeg
\* instance a call creates at line 375 carries the number of that call.
Calls == 1..MaxCalls

FfInit ==
    /\ ffmpeg = 0
    /\ ffmpegLoaded = FALSE
    /\ engines = [c \in Calls |-> "none"]
    /\ lfPc = [c \in Calls |-> "idle"]
    /\ lfResult = [c \in Calls |-> 0]
    /\ lfResultLoaded = [c \in Calls |-> FALSE]
    /\ DsIdle
    /\ IrIdle
    /\ MfIdle
    /\ TrIdle
    /\ BaIdle
    /\ FaIdle
    /\ CoIdle

\* Call c is the next one to be made.
NextCall(c) == lfPc[c] = "idle" /\ \A d \in 1..(c - 1) : lfPc[d] # "idle"

\* `return ffmpeg` (lines 370, 387): the module variable as it is then.
ReturnedInstance(c) == ffmpeg

\* Lines 369-371: an instance is there and marked loaded; it is returned.
ReturnCached(c) ==
    /\ NextCall(c)
    /\ ffmpeg # 0 /\ ffmpegLoaded
    /\ lfPc' = [lfPc EXCEPT ![c] = "resolved"]
    /\ lfResult' = [lfResult EXCEPT ![c] = ReturnedInstance(c)]
    /\ lfResultLoaded' = [lfResultLoaded EXCEPT
                             ![c] = (engines[ReturnedInstance(c)] = "loaded")]
    /\ UNCHANGED <<ffmpeg, ffmpegLoaded, engines>>
    /\ UNCHANGED ffOthers

\* Lines 369-381: otherwise a new instance is put into the module variable
\* and the call suspends at `await ffmpeg.load(...)`.
StartLoad(c) ==
    /\ NextCall(c)
    /\ ~(ffmpeg # 0 /\ ffmpegLoaded)
    /\ ffmpeg' = c
    /\ engines' = [engines EXCEPT ![c] = "loading"]
    /\ lfPc' = [lfPc EXCEPT ![c] = "await"]
    /\ UNCHANGED <<ffmpegLoaded, lfResult, lfResultLoaded>>
    /\ UNCHANGED ffOthers

\* Lines 381-387: the load() of the instance the call created completes;
\* the call sets ffmpegLoaded and returns the module variable.
LoadResolved(c) ==
    /\ lfPc[c] = "await"
    /\ engines' = [engines EXCEPT ![c] = "loaded"]
    /\ ffmpegLoaded' = TRUE
    /\ lfPc' = [lfPc EXCEPT ![c] = "resolved"]
    /\ lfResult' = [lfResult EXCEPT ![c] = ReturnedInstance(c)]
    /\ lfResultLoaded' = [lfResultLoaded EXCEPT
                             ![c] = (engines'[ReturnedInstance(c)] = "loaded")]
    /\ UNCHANGED ffmpeg
    /\ UNCHANGED ffOthers

\* Lines 388-391: the load() rejects; the error is logged and another one
\* thrown. Neither module variable is written.
LoadRejected(c) ==
    /\ lfPc[c] = "await"
    /\ engines' = [engines EXCEPT ![c] = "failed"]
    /\ lfPc' = [lfPc EXCEPT ![c] = "rejected"]
    /\ UNCHANGED <<ffmpeg, ffmpegLoaded, lfResult, lfResultLoaded>>
    /\ UNCHANGED ffOthers

FfNext ==
    \E c \in Calls :
        \/ ReturnCached(c)
        \/ StartLoad(c)
        \/ LoadResolved(c)
        \/ LoadRejected(c)

BaNext ==
    \/ InfoFetched
    \/ InfoFailed
    \/ TrackResolved
    \/ DelayElapsed
    \/ \E step \in FailSteps : TrackRejected(step)
    \/ ZipGenerated
    \/ ZipFailed

MfNext ==
    \/ DecodeBts
    \/ DecodeAtmos
    \/ DecodeUnknown
    \/ ParseDash
    \/ ReadTemplate
    \/ GenerateUrls
    \/ RepresentationFallback
    \/ ReturnStreamInfo

IrNext ==
    \/ FindMoov
    \/ FindUdta
    \/ FindMeta
    \/ FindIlst
    \/ CreateAtoms
    \/ SpliceAtoms
    \/ WriteSizes
    \/ CheckMdat

DsNext ==
    \/ CallDownloadSegments
    \/ \E i \in 0..(MaxSegments - 1) : SegmentFetched(i)
    \/ \E i \in 0..(MaxSegments - 1), kind \in FetchOutcomes : SegmentFailed(i, kind)
    \/ SequentialFetched
    \/ \E kind \in FetchOutcomes : SequentialFailed(kind)

TrNext ==
    \/ MfNext
    \/ CheckStreamInfo
    \/ StartAudioDownload
    \/ \E resp \in Responses : FetchResponded(resp)
    \/ FetchRejected
    \/ ReadChunk
    \/ ReadFailed
    \/ DsNext
    \/ SegmentsSettled

FaNext ==
    \/ ScanEnded
    \/ ReadRaised
    \/ SizeInvalid
    \/ TypeMatched
    \/ NextSibling

CoNext ==
    \/ InjectFirst
    \/ InjectSecond
    \/ InjectBoth

vars == <<dsVars, irVars, mfVars, trVars, baVars, faVars, coVars, ffVars>>

\* downloadSegments, in both modes, under every completion order
Spec == DsInit /\ [][DsNext]_vars

\* injectReplayGain on every input file and tag list
SpecInject == IrInit /\ [][IrNext]_vars

\* the manifest decoding of getStreamInfo on every manifest
SpecManifest == MfInit /\ [][MfNext]_vars

\* downloadTrack on every manifest: decoding, then the audio download
SpecTrack == TrInit /\ [][TrNext]_vars

\* downloadAlbum and downloadPlaylist on every list of tracks
SpecBatch == BaInit /\ [][BaNext]_vars

\* findAtom on every view, type, start and end
SpecFindAtom == FaInit /\ [][FaNext]_vars

\* the same, the loop being run for as long as it can go on
SpecFindAtomFair == SpecFindAtom /\ WF_vars(FaNext)

\* injectReplayGain called twice in a row, and once with both tag objects
SpecCompose == CoInit /\ [][CoNext]_vars

\* loadFFmpeg called MaxCalls times, the calls overlapping in every way
SpecFFmpeg == FfInit /\ [][FfNext]_vars





\* ======================================================================
\* What the properties speak about
\* ======================================================================

\* Where the builder of the input file put the four atoms (not where
\* findAtom found them).
ShapeMoovOff(s) == Len(ShapePre(s))
ShapeUdtaOff(s) == ShapeMoovOff(s) + 8 + (IF s.trak THEN Len(Atom(TRAK, <<7>>)) ELSE 0)
ShapeMetaOff(s) == ShapeUdtaOff(s) + 8
ShapeIlstOff(s) == ShapeMetaOff(s) + 12 + Len(Atom(HDLR, <<0, 0>>))

\* The call returned a buffer that is not its input.
Injected == irPc = "returned" /\ irResult # fileBuffer

\* The entries whose value is not the empty string, in iteration order.
NonEmptyTags == SelectSeq(tags, LAMBDA t : t.value # <<>>)

\* The byte positions (1-based) of the four size fields.
SizeFieldPositions ==
    UNION {{o + 1, o + 2, o + 3, o + 4} :
           o \in {ShapeMoovOff(shape), ShapeUdtaOff(shape),
                  ShapeMetaOff(shape), ShapeIlstOff(shape)}}

\* UTF-8 of a string of UTF-16 code units (no surrogates occur here).
Utf8Char(c) ==
    IF c < 128 THEN <<c>>
    ELSE IF c < 2048 THEN <<192 + (c \div 64), 128 + (c % 64)>>
    ELSE <<224 + (c \div 4096), 128 + ((c \div 64) % 64), 128 + (c % 64)>>

RECURSIVE Utf8Encode(_)
Utf8Encode(str) ==
    IF str = <<>> THEN <<>> ELSE Utf8Char(Head(str)) \o Utf8Encode(Tail(str))

IsCont(b) == b >= 128 /\ b <= 191

\* UTF-8 decoding as TextDecoder does it: an ill-formed byte gives U+FFFD.
RECURSIVE Utf8Decode(_)
Utf8Decode(bytes) ==
    IF bytes = <<>> THEN <<>>
    ELSE LET b == bytes[1]
             n == Len(bytes)
         IN IF b < 128 THEN <<b>> \o Utf8Decode(Tail(bytes))
            ELSE IF b >= 194 /\ b <= 223 /\ n >= 2 /\ IsCont(bytes[2])
                 THEN <<(b - 192) * 64 + (bytes[2] - 128)>>
                      \o Utf8Decode(SubSeq(bytes, 3, n))
            ELSE IF /\ b >= 224 /\ b <= 239 /\ n >= 3
                    /\ IsCont(bytes[2]) /\ IsCont(bytes[3])
                    /\ (b = 224 => bytes[2] >= 160)
                    /\ (b = 237 => bytes[2] <= 159)
                 THEN <<(b - 224) * 4096 + (bytes[2] - 128) * 64 + (bytes[3] - 128)>>
                      \o Utf8Decode(SubSeq(bytes, 4, n))
            ELSE <<65533>> \o Utf8Decode(Tail(bytes))

\* Reading one '----' atom back: the three sub-atoms are walked by their
\* size fields; the payload of name starts 12 bytes into it, that of data
\* 16 bytes into it.
ParseCustomAtom(a) ==
    LET meanAt == 8
        meanSize == getUint32(a, meanAt)
        nameAt == meanAt + meanSize
        nameSize == getUint32(a, nameAt)
        dataAt == nameAt + nameSize
        dataSize == getUint32(a, dataAt)
    IN [outer |-> getUint32(a, 0),
        outerType |-> getAtomType(a, 4),
        meanSize |-> meanSize,
        meanType |-> getAtomType(a, meanAt + 4),
        meanFlags |-> Slice(a, meanAt + 8, meanAt + 12),
        mean |-> Slice(a, meanAt + 12, meanAt + meanSize),
        nameSize |-> nameSize,
        nameType |-> getAtomType(a, nameAt + 4),
        nameFlags |-> Slice(a, nameAt + 8, nameAt + 12),
        name |-> Slice(a, nameAt + 12, nameAt + nameSize),
        dataSize |-> dataSize,
        dataType |-> getAtomType(a, dataAt + 4),
        dataFlags |-> Slice(a, dataAt + 8, dataAt + 16),
        data |-> Slice(a, dataAt + 16, dataAt + dataSize),
        end |-> dataAt + dataSize]

\* The atoms lying one after the other in bytes, cut by their outer sizes;
\* <<>> is appended as a mark when the bytes do not tile into '----' atoms.
RECURSIVE CutAtoms(_)
CutAtoms(bytes) ==
    IF bytes = <<>> THEN <<>>
    ELSE IF Len(bytes) < 8 THEN << <<>> >>
    ELSE LET size == getUint32(bytes, 0)
         IN IF size < 8 \/ size > Len(bytes) \/ getAtomType(bytes, 4) # DASHES
            THEN << <<>> >>
            ELSE <<SubSeq(bytes, 1, size)>> \o CutAtoms(SubSeq(bytes, size + 1, Len(bytes)))

\* The atoms have been built (lines 60-65 ran, with something to insert).
AtomsBuilt == irPc \in {"splice", "sizes", "mdat"} \/ Injected

\* ======================================================================
\* Properties of downloadSegments (checked under Spec)
\* ======================================================================

\* body(urls[0]) ++ body(urls[1]) ++ ... ++ body(urls[N-1])
ExpectedBytes == Flatten([k \in 1..Len(urls) |-> Body(urls[k])])

\* C1: for every number N of segments and every order in which the fetches
\* of a batch complete, a call that returns in parallel mode returns
\* body(urls[0]) ++ ... ++ body(urls[N-1]), the very bytes a call in
\* sequential mode returns.
C1_SegmentOrder ==
    dsPc = "returned" =>
        /\ combined = ExpectedBytes
        /\ combined = CombineList([k \in 1..Len(urls) |-> Body(urls[k])])
        /\ Len(combined) = SumLen([k \in 1..Len(urls) |-> Body(urls[k])])

C1_Witness ==
    /\ multi_thread_download
    /\ dsPc = "returned"
    /\ Len(urls) = 13
    /\ reordered
    /\ combined = ExpectedBytes

\* ======================================================================
\* Properties of injectReplayGain (checked under SpecInject)
\* ======================================================================

\* C2: when K > 0 bytes are inserted, the returned buffer is K bytes longer
\* than the input and the size fields at the moov, udta, meta and ilst
\* offsets of the input read M+K, U+K, E+K, I+K, where M, U, E, I are the
\* sizes the input holds at those offsets.
C2_SizeFields ==
    Injected =>
        /\ addedSize > 0
        /\ Len(irResult) = Len(fileBuffer) + addedSize
        /\ \A o \in {ShapeMoovOff(shape), ShapeUdtaOff(shape),
                     ShapeMetaOff(shape), ShapeIlstOff(shape)} :
              getUint32(irResult, o) = getUint32(fileBuffer, o) + addedSize

C2_Witness ==
    /\ Injected
    /\ shape.kids >= 1
    /\ shape.trak
    /\ Len(NonEmptyTags) = 2
    /\ getUint32(irResult, ShapeMoovOff(shape)) > getUint32(irResult, ShapeUdtaOff(shape))

\* C3: when one of the four searches reports that its atom is not found,
\* the call returns its input, byte for byte, whatever the tags; and a file
\* that lacks moov, or udta in moov, or meta in udta, or ilst in meta is
\* never patched and never makes the call raise.
C3_NoOpFallback ==
    /\ (irPc = "returned" /\ ilstOffset = -1) => irResult = fileBuffer
    /\ (shape.damage = "none" /\ shape.depth < 4) =>
          /\ irPc \notin {"threw", "atoms", "splice", "sizes", "mdat"}
          /\ irPc = "returned" => (irResult = fileBuffer /\ ilstOffset = -1)

C3_Witness ==
    /\ irPc = "returned"
    /\ shape.depth = 1
    /\ shape.trak
    /\ shape.damage = "none"
    /\ moovOffset >= 0
    /\ udtaOffset = -1
    /\ Len(NonEmptyTags) >= 1
    /\ irResult = fileBuffer

\* C4: after an injection with insertion point P = ilstOffset + ilstSize
\* and K inserted bytes, the result is input[0, P), then the K bytes of the
\* new atoms, then input[P, length); before P only the four size fields
\* differ, so the children ilst already had are kept byte for byte.
C4_SpliceFrame ==
    Injected =>
        LET P == ShapeIlstOff(shape) + getUint32(fileBuffer, ShapeIlstOff(shape))
            K == addedSize
        IN /\ \A k \in 1..P :
                 k \notin SizeFieldPositions => irResult[k] = fileBuffer[k]
           /\ SubSeq(irResult, P + 1, P + K) = Flatten(newAtoms)
           /\ \A k \in (P + 1)..Len(fileBuffer) : irResult[k + K] = fileBuffer[k]
           /\ Len(irResult) = Len(fileBuffer) + K
           /\ SubSeq(irResult, ShapeIlstOff(shape) + 9, P)
                 = Flatten([k \in 1..shape.kids |-> ExistingTag(k)])

C4_Witness ==
    /\ Injected
    /\ shape.kids >= 1
    /\ shape.free
    /\ shape.post = 1
    /\ shape.pre = 2

\* C5: createCustomAtom lays a tag out as '----' holding mean, name and
\* data, each size field being the byte length of its own atom, the outer
\* size being 8 plus the three inner sizes and the length of the array,
\* and the value bytes being the UTF-8 encoding of the value.
C5_AtomLayout ==
    AtomsBuilt =>
        \A i \in 1..Len(newAtoms) :
            LET a == newAtoms[i]
                t == NonEmptyTags[i]
                nameBytes == Utf8Encode(toUpperCase(t.key))
                valueBytes == Utf8Encode(t.value)
                meanSize == 12 + Len(MeanString)
                nameSize == 12 + Len(nameBytes)
                dataSize == 16 + Len(valueBytes)
            IN a = Uint32Bytes(8 + meanSize + nameSize + dataSize) \o DASHES
                   \o Uint32Bytes(meanSize) \o MEAN \o <<0, 0, 0, 0>> \o MeanString
                   \o Uint32Bytes(nameSize) \o NAME \o <<0, 0, 0, 0>> \o nameBytes
                   \o Uint32Bytes(dataSize) \o DATA \o <<0, 0, 0, 1>> \o <<0, 0, 0, 0>>
                   \o valueBytes

\* C6 as written: the atom of ("REPLAYGAIN_TRACK_GAIN", "-8.50 dB") is 94
\* bytes long.
C6_Length94 ==
    AtomsBuilt =>
        \A i \in 1..Len(newAtoms) :
            NonEmptyTags[i] = TagPool[1] => Len(newAtoms[i]) = 94

\* C6, amended: the atom of ("REPLAYGAIN_TRACK_GAIN", "-8.50 dB") is 93
\* bytes long: 8 for the '----' header, 12 + 16 for mean ("com.apple.iTunes"
\* has 16 characters), 12 + 21 for name and 16 + 8 for data; the four size
\* fields read 93, 28, 33 and 24.
C6_Length93 ==
    AtomsBuilt =>
        \A i \in 1..Len(newAtoms) :
            NonEmptyTags[i] = TagPool[1] =>
                LET q == ParseCustomAtom(newAtoms[i])
                IN /\ Len(newAtoms[i]) = 93
                   /\ Len(newAtoms[i]) = 8 + (12 + 16) + (12 + 21) + (16 + 8)
                   /\ q.outer = 93
                   /\ q.meanSize = 28
                   /\ q.nameSize = 33
                   /\ q.dataSize = 24

C6_Witness ==
    /\ irPc = "splice"
    /\ Len(newAtoms) = 1
    /\ tags = <<TagPool[1]>>

\* C7: for an upper-case tag name and a non-empty value, reading the atom
\* back (the sub-atoms walked by their size fields, the name and data
\* payloads decoded as UTF-8) gives the key and the value again.
C7_RoundTrip ==
    AtomsBuilt =>
        \A i \in 1..Len(newAtoms) :
            LET t == NonEmptyTags[i]
                q == ParseCustomAtom(newAtoms[i])
            IN toUpperCase(t.key) = t.key =>
                  /\ Utf8Decode(q.name) = t.key
                  /\ Utf8Decode(q.data) = t.value

\* C8: when every value of tags is the empty string, or tags is empty, the
\* call returns its input byte for byte, also when the whole chain is
\* there; no new buffer is ever built.
C8_EmptyTagsNoOp ==
    NonEmptyTags = <<>> =>
        /\ irPc \notin {"splice", "sizes", "mdat"}
        /\ irPc = "returned" => irResult = fileBuffer
        /\ shape.damage = "none" => irPc # "threw"

C8_Witness ==
    /\ irPc = "returned"
    /\ Len(tags) = 1
    /\ NonEmptyTags = <<>>
    /\ shape.depth = 4
    /\ shape.kids >= 1
    /\ ilstOffset >= 0
    /\ irResult = fileBuffer

\* C9: the result of a call is its input, or it holds at the insertion
\* point, one after the other and in the order of the tags, exactly one
\* '----' atom for every tag with a non-empty value (its name the
\* upper-cased key, its data as long as the value) and no other atom.
C9_AllOrNothing ==
    irPc = "returned" =>
        \/ irResult = fileBuffer
        \/ LET P == ShapeIlstOff(shape) + getUint32(fileBuffer, ShapeIlstOff(shape))
               K == Len(irResult) - Len(fileBuffer)
               cut == CutAtoms(SubSeq(irResult, P + 1, P + K))
           IN /\ K > 0
              /\ Len(cut) = Len(NonEmptyTags)
              /\ \A i \in 1..Len(cut) :
                    /\ cut[i] # <<>>
                    /\ ParseCustomAtom(cut[i]).name
                          = writeString(toUpperCase(NonEmptyTags[i].key))
                    /\ Len(ParseCustomAtom(cut[i]).data) = Len(NonEmptyTags[i].value)
                    /\ ParseCustomAtom(cut[i]).end = Len(cut[i])
              /\ SubSeq(irResult, P + K + 1, Len(irResult))
                    = SubSeq(fileBuffer, P + 1, Len(fileBuffer))

C9_Witness ==
    /\ Injected
    /\ Len(tags) = 2
    /\ Len(NonEmptyTags) = 1
    /\ tags[1].value = <<>>

\* ======================================================================
\* Properties of the manifest decoding (checked under SpecManifest)
\* ======================================================================

\* The decoding takes the segmented path: a DASH manifest without BaseURL
\* text whose SegmentTemplate has a media attribute holding $Number$.
SegmentedPath(m) ==
    /\ m.endpoint = "stream"
    /\ m.mime = "dash"
    /\ m.valid
    /\ (m.baseUrl = NoAttr \/ m.baseUrl = <<>>)
    /\ m.template
    /\ m.media # NoAttr
    /\ \E k \in 1..(Len(m.media) - 7) : SubSeq(m.media, k, k + 7) = NUMBER

\* What an S element adds by its r attribute: r itself when it is an
\* integer above 0 ("3", "5"), nothing when r is absent, "0" or "-1".
RepeatOf(attr) ==
    IF attr = <<51>> THEN 3 ELSE IF attr = <<53>> THEN 5 ELSE 0

RECURSIVE SumRepeats(_)
SumRepeats(rs) ==
    IF rs = <<>> THEN 0 ELSE RepeatOf(Head(rs)) + SumRepeats(Tail(rs))

\* C10: on the segmented path the number of segment URLs produced is 2 plus
\* the sum of r over the S elements whose r is an integer above 0; S
\* elements with r absent, 0 or negative add nothing; the r values
\* [0, 3, 0, 5] give 10.
C10_SegmentCount ==
    (mfPc = "returned" /\ SegmentedPath(manifest)) =>
        /\ Len(streamUrls) = 2 + SumRepeats(manifest.rs)
        /\ totalCount = Len(streamUrls)
        /\ manifest.rs = << <<48>>, <<51>>, <<48>>, <<53>> >> => Len(streamUrls) = 10

C10_Witness ==
    /\ mfPc = "returned"
    /\ SegmentedPath(manifest)
    /\ manifest.rs = << <<48>>, <<51>>, <<48>>, <<53>> >>
    /\ Len(streamUrls) = 10

\* ---- the plan and its URLs -------------------------------------------
StartsWith(str, prefix) ==
    Len(str) >= Len(prefix) /\ SubSeq(str, 1, Len(prefix)) = prefix

\* A URL of scheme http:// with the scheme made https://, any other URL
\* as it is.
Normalized(url) ==
    IF StartsWith(url, HTTP) THEN HTTPS \o SubSeq(url, Len(HTTP) + 1, Len(url))
    ELSE url

HasText(attr) == attr # NoAttr /\ attr # <<>>

\* d is the decimal notation of i: digits only, no leading zero.
IsDecimalOf(d, i) ==
    /\ Len(d) >= 1
    /\ \A k \in 1..Len(d) : IsDigit(d[k])
    /\ (Len(d) = 1 \/ d[1] # 48)
    /\ DigitsValue(d, 0) = i

\* url is template with its $Number$ token replaced by the decimal digits
\* of i, with the scheme normalized.
IsSegmentUrl(url, template, i) ==
    \E k \in 1..(Len(template) - 7) :
        /\ SubSeq(template, k, k + 7) = NUMBER
        /\ LET pre == SubSeq(template, 1, k - 1)
               post == SubSeq(template, k + 8, Len(template))
               n == Len(url) - Len(Normalized(pre \o post))
           IN /\ n >= 1
              /\ LET d == SubSeq(url, Len(url) - Len(post) - n + 1, Len(url) - Len(post))
                 IN /\ IsDecimalOf(d, i)
                    /\ url = Normalized(pre \o d \o post)

\* The segment plan a StreamInfo stands for: streamUrls when it holds any,
\* else the one streamUrl (downloader.ts 822-841).
Plan ==
    IF Len(streamUrls) > 0 THEN streamUrls
    ELSE IF streamUrl # <<>> THEN <<streamUrl>>
    ELSE <<>>

\* The manifest is a direct file by its BaseURL or by a BTS payload with a
\* URL, and this is that URL as the manifest spells it.
DirectUrls(m) ==
    IF m.mime = "bts" /\ m.payload = PayloadOneUrl THEN {BtsUrl}
    ELSE IF m.mime = "bts" /\ m.payload = PayloadTwoUrls THEN {BtsUrlSecure}
    ELSE IF m.endpoint = "stream" /\ m.mime = "dash" /\ m.valid /\ ~m.xmlError
            /\ HasText(m.baseUrl) THEN {m.baseUrl}
    ELSE {}

\* C11: for a segmented-template manifest the plan holds exactly
\* segmentCount URLs and the URL at index i is the media template with
\* $Number$ replaced by the decimal digits of i, for i = 0, 1, ... in this
\* order; for a direct-file manifest the plan is the single URL.
C11_SegmentPlan ==
    mfPc = "returned" =>
        /\ SegmentedPath(manifest) =>
              /\ Len(Plan) = 2 + SumRepeats(manifest.rs)
              /\ \A i \in 0..(Len(Plan) - 1) :
                    IsSegmentUrl(Plan[i + 1], manifest.media, i)
        /\ \A u \in DirectUrls(manifest) : Plan = <<Normalized(u)>>

C11_Witness ==
    /\ mfPc = "returned"
    /\ SegmentedPath(manifest)
    /\ Len(Plan) = 12
    /\ Plan[12] = <<104, 116, 116, 112, 115, 58, 47, 47, 104, 47, 49, 49, 46,
                    109, 112, 52>>                 \* https://h/11.mp4

\* C12: for a segmented manifest whose SegmentTemplate has an
\* initialization attribute, index 0 of the plan is the URL that attribute
\* names.
C12_InitFirst ==
    (mfPc = "returned" /\ SegmentedPath(manifest)
        /\ HasText(manifest.initialization)) =>
            Plan[1] = Normalized(manifest.initialization)

\* The text of a BaseURL element that has text, if the document holds one.
AnyBaseUrlText(m) ==
    IF HasText(m.baseUrl) THEN m.baseUrl
    ELSE IF HasText(m.repBase) THEN m.repBase
    ELSE NoAttr

\* C13: a DASH manifest decodes to (1) the direct URL of BaseURL whenever a
\* BaseURL element with text exists, even beside a SegmentTemplate; else
\* (2) a segmented plan when media holds $Number$; else (3) media verbatim
\* as a direct URL; else (4) initialization as a direct URL.
C13_PreferenceOrder ==
    (mfPc = "returned" /\ manifest.endpoint = "stream" /\ manifest.mime = "dash"
        /\ manifest.valid /\ ~manifest.xmlError) =>
        IF AnyBaseUrlText(manifest) # NoAttr
        THEN Plan = <<Normalized(AnyBaseUrlText(manifest))>>
        ELSE IF manifest.template /\ HasText(manifest.media)
                /\ Includes(manifest.media, NUMBER)
        THEN /\ Len(streamUrls) = 2 + SumRepeats(manifest.rs)
             /\ Plan = streamUrls
        ELSE IF HasText(manifest.media)
        THEN Plan = <<Normalized(manifest.media)>>
        ELSE IF HasText(manifest.initialization)
        THEN Plan = <<Normalized(manifest.initialization)>>
        ELSE TRUE

\* every URL a manifest spells out, and every URL its template stands for
SourceUrls(m) ==
    {m.baseUrl, m.repBase, m.media, m.initialization} \cup DirectUrls(m)

\* C14: on every decoding path (both endpoints) no URL returned in
\* streamUrl or streamUrls begins with http://, and what is returned is
\* the manifest's URL with the scheme http:// made https:// and the rest
\* as it was.
C14_HttpsOnly ==
    mfPc = "returned" =>
        /\ ~StartsWith(streamUrl, HTTP)
        /\ \A k \in 1..Len(streamUrls) : ~StartsWith(streamUrls[k], HTTP)
        /\ \A u \in DirectUrls(manifest) : streamUrl = Normalized(u)
        /\ streamUrl # <<>> =>
              \/ \E u \in SourceUrls(manifest) : streamUrl = Normalized(u)
              \/ IsSegmentUrl(streamUrl, manifest.media, 0)
        /\ \A k \in 1..Len(streamUrls) :
              IsSegmentUrl(streamUrls[k], manifest.media, k - 1)

C14_Witness ==
    /\ mfPc = "returned"
    /\ manifest.endpoint = "stream-atmos"
    /\ manifest.payload = PayloadOneUrl
    /\ streamUrl = <<104, 116, 116, 112, 115, 58, 47, 47, 120, 47, 115, 101, 103>>
                                                   \* https://x/seg

\* ======================================================================
\* Properties of a track download (checked under SpecTrack)
\* ======================================================================

BtsUrlHttps == <<104, 116, 116, 112, 115, 58, 47, 47, 120, 47, 115, 101, 103>>
                                                   \* https://x/seg

\* C15: a BTS manifest whose payload is base64 of
\* {"urls":["http://x/seg"]} decodes to the single direct URL
\* https://x/seg, and downloading it returns exactly the response body: the
\* chunks concatenated in the order read, of length the sum of the chunk
\* lengths; a body [1, 2, 3] gives [1, 2, 3].
C15_EndToEndDirect ==
    /\ (manifest.mime = "bts" /\ manifest.payload = PayloadOneUrl) =>
          /\ mfPc = "returned" => (streamUrl = BtsUrlHttps /\ streamUrls = <<>>)
          /\ requested \in {<<>>, <<BtsUrlHttps>>}
          /\ dsPc = "unused"
    /\ (trPc = "audio" /\ requested # <<>>) =>
          /\ chunksRead = response.body
          /\ audioBuffer = Flatten(response.body)
          /\ Len(audioBuffer) = SumLen(response.body)
          /\ response.body = << <<1, 2, 3>> >> => audioBuffer = <<1, 2, 3>>

C15_Witness ==
    /\ manifest.endpoint = "stream"
    /\ manifest.mime = "bts"
    /\ manifest.payload = PayloadOneUrl
    /\ trPc = "audio"
    /\ requested = <<BtsUrlHttps>>
    /\ response.body = << <<1>>, <<2, 3>> >>
    /\ audioBuffer = <<1, 2, 3>>

\* The payload is not valid base64 / JSON / XML, or the DASH document
\* holds none of BaseURL, SegmentTemplate media and initialization.
DecodeFails(m) ==
    \/ m.mime = "bts" /\ m.payload \in {PayloadCutJson, PayloadNotBase64}
    \/ /\ m.endpoint = "stream"
       /\ m.mime = "dash"
       /\ \/ ~m.valid
          \/ m.xmlError
          \/ /\ AnyBaseUrlText(m) = NoAttr
             /\ ~HasText(m.media)
             /\ ~HasText(m.initialization)

\* the track download went on to fetch audio
AudioFetchIssued ==
    \/ requested # <<>>
    \/ \E i \in DOMAIN fetchCount : fetchCount[i] > 0

\* C16: when the manifest cannot be decoded, the decoding fails with an
\* error instead of returning a stream info, and the download of the track
\* ends in error without any audio fetch being issued.
C16_DecodeFailure ==
    DecodeFails(manifest) =>
        /\ mfPc # "returned"
        /\ ~AudioFetchIssued
        /\ trPc \in {"stream_info", "error"}

\* ======================================================================
\* Failures and slots of downloadSegments (checked under Spec)
\* ======================================================================

\* C17: in both modes, once the fetch of any segment has failed the call
\* rejects and returns no buffer at all, whichever segment of a batch
\* failed and whatever the other fetches did; what completed is never
\* returned as a shorter output.
C17_FailureIsFatal ==
    (\E i \in DOMAIN outcome : outcome[i] = "failed") =>
        /\ dsPc = "rejected"
        /\ combined = Null

C17_Witness ==
    /\ multi_thread_download
    /\ dsPc = "rejected"
    /\ batchStart > 0
    /\ \E i \in DOMAIN outcome :
          /\ outcome[i] = "failed"
          /\ i > batchStart
          /\ \E j \in DOMAIN outcome :
                j > i /\ outcome[j] = "ok" /\ downloadedChunks[j + 1] # Null
          /\ \E j \in DOMAIN outcome :
                j < i /\ j >= batchStart /\ downloadedChunks[j + 1] # Null

\* C18: the error the call rejects with names the failing segment: its
\* index in the plan, its URL and the cause.
C18_ErrorIdentity ==
    dsPc = "rejected" =>
        /\ {"index", "url", "cause"} \subseteq DOMAIN dsError
        /\ outcome[dsError.index] = "failed"
        /\ dsError.url = urls[dsError.index + 1]

\* C19: when a parallel call reaches its concatenation every slot i is
\* non-null and holds the whole body of urls[i], so the output length is
\* the sum of all segment lengths and the null guard drops nothing; a slot
\* is written once only, from null, by the completion of the fetch of its
\* own index.
C19_NoSegmentSkipped ==
    /\ [](  (multi_thread_download /\ dsPc = "returned") =>
              /\ \A i \in 0..(Len(urls) - 1) :
                    /\ downloadedChunks[i + 1] # Null
                    /\ downloadedChunks[i + 1] = Body(urls[i + 1])
                    /\ fetchCount[i] = 1
              /\ Len(combined) = SumLen([k \in 1..Len(urls) |-> Body(urls[k])]) )
    /\ [][ multi_thread_download =>
              \A k \in 1..Len(downloadedChunks) :
                  downloadedChunks'[k] # downloadedChunks[k] =>
                      /\ downloadedChunks[k] = Null
                      /\ downloadedChunks'[k] = Body(urls[k])
                      /\ (k - 1) \in inflight
                      /\ outcome[k - 1] = "pending"
                      /\ outcome'[k - 1] = "ok"
                      /\ \A j \in 1..Len(downloadedChunks) :
                            j # k => downloadedChunks'[j] = downloadedChunks[j] ]_vars

C19_Witness ==
    /\ multi_thread_download
    /\ dsPc = "returned"
    /\ Len(urls) = 13
    /\ reordered
    /\ \A k \in 1..13 : downloadedChunks[k] = Body(urls[k])

\* ======================================================================
\* Properties of a batch download (checked under SpecBatch)
\* ======================================================================

\* the indices below n that hold a track, in increasing order
RECURSIVE DefinedBelow(_)
DefinedBelow(n) ==
    IF n = 0 THEN <<>>
    ELSE IF tracks[n] # "undefined" THEN Append(DefinedBelow(n - 1), n - 1)
    ELSE DefinedBelow(n - 1)

FailedIndices == {failedLogged[k].index : k \in 1..Len(failedLogged)}

\* C20: in downloadAlbum and downloadPlaylist a track that fails at any
\* step does not make the batch fail: every later track is still attempted,
\* in order, and the batch goes on to produce the ZIP and report stage
\* 'complete'.
C20_BatchContinues ==
    /\ baPc = "rejected" => baError \notin FailSteps
    /\ (failedLogged # <<>> /\ baPc = "rejected") => baError = "zip failed"
    /\ baPc \in {"track", "delay"} => attempted = DefinedBelow(trackIndex + 1)
    /\ baPc \in {"zip", "resolved"} => attempted = DefinedBelow(Len(tracks))
    /\ baPc = "resolved" =>
          /\ stage = "complete"
          /\ zipFiles = SelectSeq(attempted, LAMBDA j : j \notin FailedIndices)
          /\ FailedIndices \subseteq {attempted[k] : k \in 1..Len(attempted)}

C20_Witness ==
    /\ batchKind = "album"
    /\ Len(tracks) = 3
    /\ baPc = "resolved"
    /\ stage = "complete"
    /\ failedLogged = <<[index |-> 0, step |-> "audio"]>>
    /\ attempted = <<0, 1, 2>>
    /\ zipFiles = <<1, 2>>

\* ======================================================================
\* Properties of findAtom (checked under SpecFindAtom)
\* ======================================================================

\* The range [start, end) lies inside the view.
RangeInside == faStart >= 0 /\ faStart <= faEnd /\ faEnd <= Len(faView)

\* The atom headers met when going from sibling to sibling from offset: a
\* header is met when its 8 bytes lie before end; the walk goes on past a
\* header by its size field and cannot go past one whose size is below 8.
RECURSIVE Siblings(_, _, _)
Siblings(view, offset, end) ==
    IF offset < 0 \/ offset + 8 > end \/ offset + 8 > Len(view) THEN <<>>
    ELSE IF getUint32(view, offset) < 8 THEN <<offset>>
    ELSE <<offset>> \o Siblings(view, offset + getUint32(view, offset), end)

\* Header i of the walk is the first one that ends it: its size is below 8
\* (whatever its type) or its type is the one looked for.
Matches(view, type, o) ==
    getUint32(view, o) >= 8 /\ getAtomType(view, o + 4) = type

Passed(view, type, o) ==
    getUint32(view, o) >= 8 /\ getAtomType(view, o + 4) # type

C22_ScanBound ==
    (RangeInside /\ faPc = "returned") =>
        LET walk == Siblings(faView, faStart, faEnd)
        IN /\ (faResult = -1 /\ faEnd - faOffset >= 8)
                 => getUint32(faView, faOffset) < 8
           /\ \A i \in 1..Len(walk) :
                 (/\ Matches(faView, faType, walk[i])
                  /\ \A j \in 1..(i - 1) : Passed(faView, faType, walk[j])
                  /\ walk[i] + 8 = faEnd)
                     => faResult = walk[i]

\* C28: every findAtom call ends: the loop is left after finitely many
\* iterations, an iteration that does not leave it moves the offset on by
\* 8 or more, and at an offset of end - 8 or more the loop is left with -1.
C28_FindAtomTerminates ==
    /\ <>(faPc # "loop")
    /\ [][(faPc = "loop" /\ faPc' = "loop") => faOffset' >= faOffset + 8]_vars
    /\ [][(faPc = "loop" /\ faOffset >= faEnd - 8)
             => (faPc' = "returned" /\ faResult' = -1)]_vars

\* A call that met a size field of 0 after one step and ended there.
C28_Witness ==
    /\ faPc = "returned"
    /\ faOffset > faStart
    /\ faOffset + 8 < faEnd
    /\ InRange(faView, faOffset, 4)
    /\ getUint32(faView, faOffset) = 0
    /\ faResult = -1

\* ======================================================================
\* More properties of downloadSegments (checked under Spec)
\* ======================================================================

\* The indices a fetch was issued for.
Issued == {i \in DOMAIN fetchCount : fetchCount[i] > 0}

\* The first index of the batch of 6 that index i belongs to.
BatchOf(i) == 6 * (i \div 6)

\* C23: in parallel mode the fetches in flight all belong to one batch of
\* 6 consecutive indices [6k, 6k + 6), so at most 6 are in flight; and a
\* fetch of a batch is issued only when every fetch of every earlier batch
\* has completed successfully.
C23_BatchBarrier ==
    /\ [](multi_thread_download =>
            /\ Cardinality(inflight) <= 6
            /\ \E k \in 0..Len(urls) : inflight \subseteq (6 * k)..(6 * k + 5)
            /\ \A i \in Issued : \A j \in 0..(BatchOf(i) - 1) : outcome[j] = "ok")
    /\ [][multi_thread_download =>
            \A i \in DOMAIN fetchCount :
                fetchCount'[i] > fetchCount[i] =>
                    /\ \A j \in 0..(BatchOf(i) - 1) : outcome'[j] = "ok"
                    /\ inflight' = BatchOf(i)..Min(BatchOf(i) + 5, Len(urls) - 1)]_vars

\* The second batch of a 13 segment plan is in flight, all six at once.
C23_Witness ==
    /\ multi_thread_download
    /\ Len(urls) = 13
    /\ dsPc = "await_batch"
    /\ batchStart = 6
    /\ inflight = 6..11
    /\ \A j \in 0..5 : outcome[j] = "ok"

\* C24: within one downloadSegments call, in either mode, no index is
\* fetched more than once; from the step in which a fetch fails on, no
\* fetch is issued at all, so a failed fetch is not issued again and
\* nothing after a failed sequential fetch, or in a batch after a failed
\* batch, is requested; a call that returns has fetched every index once.
C24_NoRetry ==
    /\ [](\A i \in DOMAIN fetchCount : fetchCount[i] <= 1)
    /\ [](dsPc = "returned" => \A i \in DOMAIN fetchCount : fetchCount[i] = 1)
    /\ [](\A i \in DOMAIN outcome :
            outcome[i] = "failed" =>
                /\ dsPc = "rejected"
                /\ \A j \in DOMAIN fetchCount :
                      (IF multi_thread_download THEN j >= BatchOf(i) + 6 ELSE j > i)
                          => fetchCount[j] = 0)
    /\ [][(\E i \in DOMAIN outcome' : outcome'[i] = "failed")
             => fetchCount' = fetchCount]_vars

\* Sequential mode, 13 segments: the fetch of index 1 failed, the call
\* rejected, index 1 was fetched once and no later index at all.
C24_Witness ==
    /\ ~multi_thread_download
    /\ Len(urls) = 13
    /\ dsPc = "rejected"
    /\ outcome[0] = "ok"
    /\ outcome[1] = "failed"
    /\ fetchCount[0] = 1
    /\ fetchCount[1] = 1
    /\ \A j \in 2..12 : fetchCount[j] = 0

\* ======================================================================
\* More properties of injectReplayGain (checked under SpecInject)
\* ======================================================================

\* The descent of lines 21-54 run on a buffer: moov from offset 0, udta in
\* moov, meta in udta, ilst in meta (from 12 bytes into meta); -1 for an
\* atom that is not found and for those below it.
Descent(buf) ==
    LET moov == findAtom(buf, MOOV, 0, Len(buf)).offset
        udta == IF moov = -1 THEN -1
                ELSE findAtom(buf, UDTA, moov + 8,
                              moov + getUint32(buf, moov)).offset
        meta == IF udta = -1 THEN -1
                ELSE findAtom(buf, META, udta + 8,
                              udta + getUint32(buf, udta)).offset
        ilst == IF meta = -1 THEN -1
                ELSE findAtom(buf, ILST, meta + 12,
                              meta + getUint32(buf, meta)).offset
    IN [moov |-> moov, udta |-> udta, meta |-> meta, ilst |-> ilst]

\* C25: after an injection into a well-formed file, the descent run on the
\* returned buffer finds moov, udta, meta and ilst at the offsets they have
\* in the input, their type fields unchanged; the K inserted bytes lie at
\* [ilstOffset + I, ilstOffset + I + K), I being the size ilst had, which
\* is the end of the grown ilst and inside meta, udta and moov.
C25_OffsetsSurvive ==
    (Injected /\ shape.damage = "none") =>
        LET before == Descent(fileBuffer)
            after == Descent(irResult)
            I == getUint32(fileBuffer, ilstOffset)
            K == addedSize
        IN /\ before = [moov |-> ShapeMoovOff(shape), udta |-> ShapeUdtaOff(shape),
                        meta |-> ShapeMetaOff(shape), ilst |-> ShapeIlstOff(shape)]
           /\ before = [moov |-> moovOffset, udta |-> udtaOffset,
                        meta |-> metaOffset, ilst |-> ilstOffset]
           /\ after = before
           /\ getAtomType(irResult, moovOffset + 4) = MOOV
           /\ getAtomType(irResult, udtaOffset + 4) = UDTA
           /\ getAtomType(irResult, metaOffset + 4) = META
           /\ getAtomType(irResult, ilstOffset + 4) = ILST
           /\ K > 0
           /\ SubSeq(irResult, ilstOffset + I + 1, ilstOffset + I + K)
                 = Flatten(newAtoms)
           /\ ilstOffset + getUint32(irResult, ilstOffset) = ilstOffset + I + K
           /\ \A o \in {moovOffset, udtaOffset, metaOffset} :
                 /\ o < ilstOffset
                 /\ ilstOffset + I + K <= o + getUint32(irResult, o)

\* An injection of two atoms into a file with mdat before and after moov,
\* a trak before udta, a tag already in ilst and a free atom after it.
C25_Witness ==
    /\ Injected
    /\ shape.damage = "none"
    /\ shape.pre = 2
    /\ shape.post = 1
    /\ shape.trak
    /\ shape.kids = 1
    /\ shape.free
    /\ Len(newAtoms) = 2
    /\ Descent(irResult).ilst = ilstOffset

\* The call as a whole agrees with injectReplayGain taken as a function.
InjectAgrees ==
    /\ irPc = "returned" =>
          /\ ~injectReplayGain(fileBuffer, tags).threw
          /\ irResult = injectReplayGain(fileBuffer, tags).result
          /\ mdatWarned = injectReplayGain(fileBuffer, tags).warned
    /\ irPc = "threw" => injectReplayGain(fileBuffer, tags).threw

\* The first top-level mdat of the input file starts after moov / before
\* moov.
MdatAfterMoov ==
    shape.damage = "none" /\ shape.depth >= 1 /\ shape.pre < 2 /\ shape.post = 1

MdatBeforeMoov == shape.damage = "none" /\ shape.depth >= 1 /\ shape.pre = 2

\* C26: with mdat after moov the call still injects: it logs the warning,
\* raises nothing and returns the buffer lines 73-107 built, the bytes of
\* moov before udta (trak and its chunk offsets) being left as they were;
\* the check itself only ever sets the warning and returns that buffer; with
\* mdat before moov every byte before moovOffset keeps its offset.
C26_MdatWarnOnly ==
    /\ [](MdatAfterMoov => irPc # "threw")
    /\ []((MdatAfterMoov /\ irPc = "returned" /\ ilstOffset >= 0
              /\ NonEmptyTags # <<>>) =>
            LET P == ilstOffset + getUint32(fileBuffer, ilstOffset)
                patched == UpdateSizes(
                               Splice(fileBuffer, BuildAtoms(tags), P).buf,
                               fileBuffer, moovOffset, udtaOffset, metaOffset,
                               ilstOffset, SumLen(BuildAtoms(tags)))
            IN /\ mdatWarned
               /\ Injected
               /\ irResult = patched
               /\ irResult = newBuffer
               /\ SubSeq(irResult, moovOffset + 9, udtaOffset)
                     = SubSeq(fileBuffer, moovOffset + 9, udtaOffset))
    /\ []((MdatBeforeMoov /\ Injected) =>
            /\ ~mdatWarned
            /\ moovOffset = Len(ShapePre(shape))
            /\ SubSeq(irResult, 1, moovOffset) = ShapePre(shape)
            /\ SubSeq(irResult, 1, moovOffset) = SubSeq(fileBuffer, 1, moovOffset))
    /\ [][(irPc = "mdat" /\ shape.damage = "none") =>
             /\ irPc' = "returned"
             /\ irResult' = newBuffer
             /\ newBuffer' = newBuffer
             /\ mdatWarned' = MdatAfterMoov]_vars

\* An injection into a file whose only mdat follows moov: warned, patched.
C26_Witness ==
    /\ MdatAfterMoov
    /\ shape.trak
    /\ shape.pre = 1
    /\ Injected
    /\ mdatWarned
    /\ Len(irResult) = Len(fileBuffer) + addedSize

\* C27: on every input, damaged files included, the call does not raise
\* and returns its input or a buffer K bytes longer than its input, K
\* being the length of the atoms built.
C27_TwoOutcomes ==
    /\ irPc # "threw"
    /\ irPc = "returned" =>
          \/ irResult = fileBuffer
          \/ /\ addedSize > 0
             /\ Len(irResult) = Len(fileBuffer) + addedSize

\* ======================================================================
\* Properties of repeated injection (checked under SpecCompose)
\* ======================================================================

Quiescent == \A c \in Calls : lfPc[c] # "await"

\* C30: however the calls overlap, a call that resolves resolves with an
\* instance whose load() has completed; once no call is suspended, an
\* instance marked loaded in the module variables is a loaded one; and
\* while the instance in the module variable is one whose load() failed,
\* ffmpegLoaded is false, so that the next call loads again.
C30_LazyLoadOverlap ==
    /\ \A c \in Calls :
          lfPc[c] = "resolved" => (lfResult[c] # 0 /\ lfResultLoaded[c])
    /\ (Quiescent /\ ffmpegLoaded) => (ffmpeg # 0 /\ engines[ffmpeg] = "loaded")
    /\ (ffmpeg # 0 /\ engines[ffmpeg] = "failed") => ~ffmpegLoaded

====
